---- MODULE Spec2Model ----
(***************************************************************************)
(* Model of the workfarm orchestration core: the session manager, the      *)
(* worker-runtime adapter (NodeAdapter), the bridge, the goal manager and  *)
(* the adversary control loop.                                             *)
(*                                                                         *)
(* One step of the model is one event-loop task of the program: an         *)
(* operator command, one event of a worker subprocess, one timer fire or   *)
(* the completion of one Oracle call.  A handler runs to its first await   *)
(* on the Oracle; awaits on the NodeAdapter (startSession, sendToSession,  *)
(* stopSession, ensureSkills) resolve without returning to the event loop, *)
(* so that the code after them belongs to the same step.  EventBus.emit    *)
(* is synchronous, so that the listeners of an event run inside the step   *)
(* that publishes it.                                                      *)
(*                                                                         *)
(* Handlers are written as operators from a world record to a world record *)
(* so that a call chain of the code is a composition of operators.         *)
(***************************************************************************)
EXTENDS Integers, Sequences, FiniteSets, TLC

\* ---------------------------------------------------------------- bounds
NumAgents == 1
MaxSessions == 2
MaxProcs == 2
MaxTasks == 2
NumGoals == 1
MaxSteps == 2
MaxThreads == 2
MaxUsed == 1
\* the ids a run can hand out in the specifications that follow one goal from
\* its wake to its end
LongRunIds == 4
MaxHires == 3
PoolSize == 2

Agents == 1..NumAgents
SessionIds == 1..LongRunIds
ProcIds == 1..LongRunIds
TaskIds == 1..LongRunIds
Goals == 1..NumGoals
ThreadIds == 1..MaxThreads

\* AgentGoal.agentId of the goals the operator created
GoalAgent(g) == ((g - 1) % NumAgents) + 1

\* taskId of a conversation session (part_005:412, 'conversation')
conversationTaskId == 0

\* ---------------------------------------------------------------- tools
BASELINE_TOOLS == {"Read", "Glob", "Grep"}
ToolNames == {"Bash", "bash", "Edit"}
\* tool_name of a permission denial as it arrives; "" is a denial without one
RawToolNames == ToolNames \cup {""}
\* the tools the operator answers a permission request for
ApprovableTools == {"Bash", "Edit"}

\* String.prototype.toLowerCase on the tool names of the model
toLowerCase(t) ==
  CASE t = "Bash" -> "bash"
    [] t = "Edit" -> "edit"
    [] t = "Read" -> "read"
    [] t = "Glob" -> "glob"
    [] t = "Grep" -> "grep"
    [] OTHER -> t

LiveStatuses == {"starting", "active", "waiting_input"}
EndStatuses == {"completed", "error"}

\* ---------------------------------------------------------------- state
VARIABLES
  sessions,          \* SessionManager.sessions: sessionId -> AgentSession
  numSessions,       \* number of session ids handed out by uuidv4
  agentSessionMap,   \* SessionManager.agentSessionMap (0: no entry)
  activeExecutions,  \* ClaudeCodeBridge.activeExecutions
  approvedTools,     \* Agent.approvedTools
  agentState,        \* Agent.state
  currentTaskId,     \* Agent.currentTaskId (-1: null)
  tasksCompleted,    \* Agent.tasksCompleted
  tasks,             \* TaskManager.tasks
  numTasks,          \* number of task ids handed out
  procs,             \* the subprocesses spawned by NodeAdapter
  numProcs,          \* number of subprocesses spawned
  sessionProcesses,  \* NodeAdapter.sessionProcesses (0: no entry)
  published,         \* events published on the EventBus by the last step
  sent,              \* NodeAdapter calls made by the last step
  createdCount,      \* session_created events published so far, per session
  endedCount,        \* session_ended events published so far, per session
  goals,             \* GoalManager.goals: goalId -> status
  plans,             \* GoalManager.plans: goalId -> current plan (version 0: none)
  activeGoals,       \* AdversaryAgent.activeGoals
  stepTaskMap,       \* AdversaryAgent.stepTaskMap (goalId 0: no entry)
  reconTaskMap,      \* AdversaryAgent.reconTaskMap (0: no entry)
  reconResults,      \* AdversaryAgent.reconResults: goals with a stored report
  retryMap,          \* AdversaryAgent.retryMap, as a set of <<stepId, count>>
  threads,           \* the Adversary's calls suspended on the Oracle
  preferences,       \* PreferenceManager.preferences: agentId -> list
  roster,            \* AgentManager.agents, in insertion order: <<id, name>>
  numHired,          \* number of agent ids handed out by hireAgent
  usedNames          \* AgentManager.usedNames

vars == <<sessions, numSessions, agentSessionMap, activeExecutions, approvedTools,
          agentState, currentTaskId, tasksCompleted, tasks, numTasks, procs,
          numProcs, sessionProcesses, published, sent, createdCount, endedCount,
          goals, plans, activeGoals, stepTaskMap, reconTaskMap, reconResults,
          retryMap, threads,
          preferences,
          roster,
          numHired,
          usedNames>>

NoSession == [status |-> "none", agentId |-> 0, taskId |-> 0,
              pendingPermissions |-> <<>>, hasAssistant |-> FALSE, marker |-> FALSE]
NoTask == [status |-> "none", result |-> "null", assignedAgentId |-> 0]
NoProc == [st |-> "none", sid |-> 0, hasErrored |-> FALSE, killed |-> FALSE]
NoPlan == [version |-> 0, steps |-> <<>>, recurring |-> FALSE]
NoStep == <<0, 0>>
NoMapping == [goalId |-> 0, stepId |-> NoStep]
NoThread == [kind |-> "idle", goalId |-> 0, stepId |-> NoStep, result |-> "null",
             from |-> ""]

\* The state as one record, and the record as the next state.
World ==
  [sessions |-> sessions, numSessions |-> numSessions,
   agentSessionMap |-> agentSessionMap, activeExecutions |-> activeExecutions,
   approvedTools |-> approvedTools, agentState |-> agentState,
   currentTaskId |-> currentTaskId, tasksCompleted |-> tasksCompleted,
   tasks |-> tasks, numTasks |-> numTasks, procs |-> procs, numProcs |-> numProcs,
   sessionProcesses |-> sessionProcesses, published |-> <<>>, sent |-> <<>>,
   createdCount |-> createdCount, endedCount |-> endedCount,
   goals |-> goals, plans |-> plans, activeGoals |-> activeGoals,
   stepTaskMap |-> stepTaskMap, reconTaskMap |-> reconTaskMap,
   reconResults |-> reconResults, retryMap |-> retryMap, threads |-> threads,
   preferences |-> preferences,
   maxSessions |-> MaxSessions, maxProcs |-> MaxProcs, maxTasks |-> MaxTasks,
   roster |-> roster,
   numHired |-> numHired,
   usedNames |-> usedNames,
   overflow |-> FALSE]

\* the same state with room for the sessions, subprocesses and tasks of a whole run
LongRun ==
  [World EXCEPT !.maxSessions = LongRunIds, !.maxProcs = LongRunIds,
                !.maxTasks = LongRunIds]

Commit(w) ==
  /\ ~w.overflow
  /\ sessions' = w.sessions
  /\ numSessions' = w.numSessions
  /\ agentSessionMap' = w.agentSessionMap
  /\ activeExecutions' = w.activeExecutions
  /\ approvedTools' = w.approvedTools
  /\ agentState' = w.agentState
  /\ currentTaskId' = w.currentTaskId
  /\ tasksCompleted' = w.tasksCompleted
  /\ tasks' = w.tasks
  /\ numTasks' = w.numTasks
  /\ procs' = w.procs
  /\ numProcs' = w.numProcs
  /\ sessionProcesses' = w.sessionProcesses
  /\ published' = w.published
  /\ sent' = w.sent
  /\ createdCount' = w.createdCount
  /\ endedCount' = w.endedCount
  /\ goals' = w.goals
  /\ plans' = w.plans
  /\ activeGoals' = w.activeGoals
  /\ stepTaskMap' = w.stepTaskMap
  /\ reconTaskMap' = w.reconTaskMap
  /\ reconResults' = w.reconResults
  /\ retryMap' = w.retryMap
  /\ threads' = w.threads
  /\ preferences' = w.preferences
  /\ roster' = w.roster
  /\ numHired' = w.numHired
  /\ usedNames' = w.usedNames

\* ---------------------------------------------------------------- EventBus
Ev(type, sid, arg) == [type |-> type, sid |-> sid, arg |-> arg]

\* EventBus.emit, for the events no modelled component listens to; the
\* session_created and session_ended events are also counted per session
emit(w, type, sid, arg) ==
  LET w1 == [w EXCEPT !.published = Append(@, Ev(type, sid, arg))] IN
  IF type = "session_created" THEN [w1 EXCEPT !.createdCount[sid] = @ + 1]
  ELSE IF type = "session_ended" THEN [w1 EXCEPT !.endedCount[sid] = @ + 1]
  ELSE w1

\* ---------------------------------------------------------------- AgentManager
updateAgentState(w, agentId, state) == [w EXCEPT !.agentState[agentId] = state]

assignTask(w, agentId, taskId) ==
  updateAgentState([w EXCEPT !.currentTaskId[agentId] = taskId], agentId, "working")

unassignTask(w, agentId) ==
  updateAgentState([w EXCEPT !.currentTaskId[agentId] = -1], agentId, "idle")

\* a Bridge that does not count completed tasks
tasksCompletedKept(w, agentId) == w

incrementTasksCompleted(w, agentId) ==
  [w EXCEPT !.tasksCompleted[agentId] = @ + 1]

addApprovedTool(w, agentId, toolName) ==
  [w EXCEPT !.approvedTools[agentId] = @ \cup {toolName}]

\* ---------------------------------------------------------------- TaskManager
createTask(w) ==
  IF w.numTasks >= w.maxTasks THEN [w EXCEPT !.overflow = TRUE]
  ELSE [w EXCEPT !.numTasks = @ + 1,
                 !.tasks[w.numTasks + 1] =
                    [status |-> "pending", result |-> "null", assignedAgentId |-> 0]]

assignAgent(w, taskId, agentId) ==
  IF taskId \in TaskIds /\ w.tasks[taskId].status # "none"
  THEN [w EXCEPT !.tasks[taskId].assignedAgentId = agentId] ELSE w

startTask(w, taskId) ==
  IF taskId \in TaskIds /\ w.tasks[taskId].status # "none"
  THEN [w EXCEPT !.tasks[taskId].status = "in_progress"] ELSE w

completeTask(w, taskId, result) ==
  IF taskId \in TaskIds /\ w.tasks[taskId].status # "none"
  THEN [w EXCEPT !.tasks[taskId].status = "completed", !.tasks[taskId].result = result]
  ELSE w

failTask(w, taskId) ==
  IF taskId \in TaskIds /\ w.tasks[taskId].status # "none"
  THEN [w EXCEPT !.tasks[taskId].status = "failed", !.tasks[taskId].result = "error"]
  ELSE w

\* ---------------------------------------------------------------- NodeAdapter
\* NodeAdapter.spawnSessionProcess (the spawn and the registration)
spawnSessionProcess(w, sessionId) ==
  IF w.numProcs >= w.maxProcs THEN [w EXCEPT !.overflow = TRUE]
  ELSE [w EXCEPT !.numProcs = @ + 1,
                 !.procs[w.numProcs + 1] =
                    [st |-> "live", sid |-> sessionId, hasErrored |-> FALSE,
                     killed |-> FALSE],
                 !.sessionProcesses[sessionId] = w.numProcs + 1]

\* kill('SIGTERM') of the registered subprocess and removal of the registration
killRegistered(w, sessionId) ==
  LET existing == w.sessionProcesses[sessionId] IN
  IF existing # 0
  THEN [w EXCEPT !.procs[existing].killed = TRUE, !.sessionProcesses[sessionId] = 0]
  ELSE w

\* NodeAdapter.startSession
runtimeStartSession(w, sessionId) ==
  spawnSessionProcess(
    [w EXCEPT !.sent = Append(@, [op |-> "start", sid |-> sessionId, message |-> "prompt"])],
    sessionId)

\* NodeAdapter.sendToSession
sendToSession(w, sessionId, message, allowedTools) ==
  spawnSessionProcess(
    killRegistered(
      [w EXCEPT !.sent = Append(@, [op |-> "send", sid |-> sessionId, message |-> message])],
      sessionId),
    sessionId)

\* NodeAdapter.stopSession
runtimeStopSession(w, sessionId) ==
  killRegistered(
    [w EXCEPT !.sent = Append(@, [op |-> "stop", sid |-> sessionId, message |-> ""])],
    sessionId)

\* listeners without the generation check
neverSuperseded(w, p) == FALSE

\* isSuperseded of the listeners of subprocess p
isSuperseded(w, p) == w.sessionProcesses[w.procs[p].sid] # p

\* ---------------------------------------------------------------- stream events
StreamEvent(type, subtype, hasResult, denials, marker) ==
  [type |-> type, subtype |-> subtype, hasResult |-> hasResult,
   denials |-> denials, marker |-> marker]

\* the permission_denials arrays a result event carries in the model: none, one
\* tool, one tool twice in different case, two tools, a denial without a name
DenialLists == {<<>>, <<"Bash">>, <<"Bash", "bash">>, <<"Bash", "Edit">>, <<"">>}

TerminalSubtypes == {"close", "success", "error"}
ResultEventsWith(subtypes, denialLists) ==
  {StreamEvent("result", sub, hr, dn, FALSE) :
     sub \in subtypes, hr \in BOOLEAN, dn \in denialLists}
MessageEvents ==
  {StreamEvent("assistant", "", FALSE, <<>>, FALSE),
   StreamEvent("system", "", FALSE, <<>>, FALSE),
   StreamEvent("content_block_stop", "", FALSE, <<>>, FALSE),
   StreamEvent("result", "error_max_turns", FALSE, <<>>, FALSE)}
\* what a worker subprocess writes on stdout, one JSON line each, when the
\* life cycle of sessions is explored
WorkerEvents == ResultEventsWith(TerminalSubtypes, {<<>>, <<"Bash">>}) \cup MessageEvents
\* and when the permission flow is explored
PermissionEvents ==
  ResultEventsWith({"success"}, DenialLists) \cup
  {StreamEvent("assistant", "", FALSE, <<>>, FALSE)}

\* ---------------------------------------------------------------- SessionManager
getActiveSessionForAgent(w, agentId) ==
  LET sessionId == w.agentSessionMap[agentId] IN
  IF sessionId # 0 /\ w.sessions[sessionId].status \in LiveStatuses
  THEN sessionId ELSE 0

\* d.tool_name || d.toolName || 'unknown'
denialToolName(raw) == IF raw = "" THEN "unknown" ELSE raw

RECURSIVE uniqueFrom(_, _, _)
uniqueFrom(denials, i, acc) ==
  IF i > Len(denials) THEN acc
  ELSE LET name == denialToolName(denials[i])
           seen == \E j \in 1..Len(acc) : toLowerCase(acc[j]) = toLowerCase(name)
       IN uniqueFrom(denials, i + 1, IF seen THEN acc ELSE Append(acc, name))

\* the denials without the filter
allDenials(denials) == [i \in 1..Len(denials) |-> denialToolName(denials[i])]

\* the filter with seenTools of handleStreamEvent
uniqueDenials(denials) == uniqueFrom(denials, 1, <<>>)

RECURSIVE emitPermissionRequests(_, _, _, _)
emitPermissionRequests(w, sessionId, denials, i) ==
  IF i > Len(denials) THEN w
  ELSE emitPermissionRequests(emit(w, "permission_requested", sessionId, denials[i]),
                              sessionId, denials, i + 1)

\* SessionManager.parseStreamEvent: the type of the message, "" for null
parseStreamEvent(event) ==
  CASE event.type = "assistant" -> "assistant"
    [] event.type = "system" -> "system"
    [] OTHER -> ""

\* a start that publishes no session_created
startSessionUnannounced(w, agentId, taskId) ==
  IF w.numSessions >= w.maxSessions THEN [w EXCEPT !.overflow = TRUE]
  ELSE
    LET sessionId == w.numSessions + 1
        w1 == [w EXCEPT !.numSessions = sessionId,
                        !.sessions[sessionId] =
                           [status |-> "starting", agentId |-> agentId, taskId |-> taskId,
                            pendingPermissions |-> <<>>, hasAssistant |-> FALSE,
                            marker |-> FALSE],
                        !.agentSessionMap[agentId] = sessionId]
        w3 == runtimeStartSession(w1, sessionId)
        w4 == [w3 EXCEPT !.sessions[sessionId].status = "active"]
    IN emit(w4, "session_status_changed", sessionId, "active")

\* SessionManager.startSession
startSession(w, agentId, taskId) ==
  IF w.numSessions >= w.maxSessions THEN [w EXCEPT !.overflow = TRUE]
  ELSE
    LET sessionId == w.numSessions + 1
        w1 == [w EXCEPT !.numSessions = sessionId,
                        !.sessions[sessionId] =
                           [status |-> "starting", agentId |-> agentId, taskId |-> taskId,
                            pendingPermissions |-> <<>>, hasAssistant |-> FALSE,
                            marker |-> FALSE],
                        !.agentSessionMap[agentId] = sessionId]
        w2 == emit(w1, "session_created", sessionId, "")
        w3 == runtimeStartSession(w2, sessionId)
        w4 == [w3 EXCEPT !.sessions[sessionId].status = "active"]
    IN emit(w4, "session_status_changed", sessionId, "active")

\* SessionManager.sendMessage
sendMessage(w, sessionId, message, allowedTools) ==
  IF w.sessions[sessionId].status = "none" THEN w
  ELSE
    LET w1 == [w EXCEPT !.sessions[sessionId].status = "active"]
        w2 == emit(emit(w1, "session_message", sessionId, "user"),
                   "session_status_changed", sessionId, "active")
    IN sendToSession(w2, sessionId, message, allowedTools)

\* SessionManager.approvePermission: the session state after the call
approvePermission(w, sessionId, toolName) ==
  [w EXCEPT !.sessions[sessionId].pendingPermissions =
     SelectSeq(@, LAMBDA p : toLowerCase(p) # toLowerCase(toolName))]

\* SessionManager.approvePermission: resolved
approveResolved(w, sessionId, toolName) ==
  LET pending == w.sessions[sessionId].pendingPermissions
      match == SelectSeq(pending, LAMBDA p : toLowerCase(p) = toLowerCase(toolName))
  IN IF Len(match) > 0 THEN match[1] ELSE toolName

\* an approval that always reports every permission as granted
approveAlwaysAll(w, sessionId, toolName) == TRUE

\* an approval that reports success only for a tool that was pending
approveAllWhenMatched(w, sessionId, toolName) ==
  /\ \E i \in 1..Len(w.sessions[sessionId].pendingPermissions) :
       toLowerCase(w.sessions[sessionId].pendingPermissions[i]) = toLowerCase(toolName)
  /\ \A i \in 1..Len(w.sessions[sessionId].pendingPermissions) :
       toLowerCase(w.sessions[sessionId].pendingPermissions[i]) = toLowerCase(toolName)

\* SessionManager.approvePermission: allApproved
approveAllApproved(w, sessionId, toolName) ==
  Len(approvePermission(w, sessionId, toolName).sessions[sessionId].pendingPermissions) = 0

\* SessionManager.resumeSession
resumeSession(w, sessionId, allowedTools) ==
  IF w.sessions[sessionId].status = "none" THEN w
  ELSE
    LET w1 == [w EXCEPT !.sessions[sessionId].status = "active",
                        !.sessions[sessionId].pendingPermissions = <<>>,
                        !.agentSessionMap[w.sessions[sessionId].agentId] = sessionId]
        w2 == emit(w1, "session_status_changed", sessionId, "active")
    IN sendToSession(w2, sessionId, "Permission granted. Continue your task.",
                     allowedTools)

\* ---------------------------------------------------------------- Bridge
isExecuting(w, agentId) == w.activeExecutions[agentId]

\* ClaudeCodeBridge.executeTask: success of the call
executeTaskSuccess(w, agentId, taskId) == ~w.activeExecutions[agentId]

\* ClaudeCodeBridge.executeTask: the state after the call
executeTask(w, agentId, taskId) ==
  IF w.activeExecutions[agentId] THEN w
  ELSE
    LET w1 == [w EXCEPT !.activeExecutions[agentId] = TRUE]
        w2 == startTask(updateAgentState(w1, agentId, "thinking"), taskId)
    IN startSession(w2, agentId, taskId)

\* ---------------------------------------------------------------- GoalManager
updateGoal(w, goalId, status) ==
  emit([w EXCEPT !.goals[goalId] = status], "goal_updated", goalId, status)

pauseGoal(w, goalId) ==
  IF w.goals[goalId] # "active" THEN w
  ELSE emit([w EXCEPT !.goals[goalId] = "paused"], "goal_paused", goalId, "")

resumeGoal(w, goalId) ==
  IF w.goals[goalId] # "paused" THEN w
  ELSE emit([w EXCEPT !.goals[goalId] = "active"], "goal_resumed", goalId, "")

NewStep == [status |-> "pending", taskId |-> -1, question |-> FALSE, result |-> "null",
            description |-> "step"]

\* a setPlan that restarts the version count with every plan
setPlanVersionOne(w, goalId, n, recurring) ==
  emit([w EXCEPT !.plans[goalId] =
          [version |-> 1, steps |-> [i \in 1..n |-> NewStep],
           recurring |-> recurring]],
       "plan_created", goalId, "")

\* GoalManager.setPlan with n steps
setPlan(w, goalId, n, recurring) ==
  LET version == w.plans[goalId].version + 1 IN
  emit([w EXCEPT !.plans[goalId] =
          [version |-> version, steps |-> [i \in 1..n |-> NewStep],
           recurring |-> recurring]],
       "plan_created", goalId, "")

hasPlan(w, goalId) == w.plans[goalId].version # 0

\* the step ids of the current plan: <<plan version, position>>
stepIds(w, goalId) == {<<w.plans[goalId].version, i>> : i \in 1..Len(w.plans[goalId].steps)}

stepOf(w, goalId, stepId) == w.plans[goalId].steps[stepId[2]]

\* GoalManager.updatePlanStep; updates is a record of the fields to assign
updatePlanStep(w, goalId, stepId, updates) ==
  IF stepId \notin stepIds(w, goalId) THEN w
  ELSE
    LET old == stepOf(w, goalId, stepId)
        new == [f \in DOMAIN old |-> IF f \in DOMAIN updates THEN updates[f] ELSE old[f]]
        w1 == [w EXCEPT !.plans[goalId].steps[stepId[2]] = new]
    IN IF "status" \notin DOMAIN updates THEN w1
       ELSE IF updates.status = "in_progress" THEN emit(w1, "step_started", goalId, "")
       ELSE IF updates.status = "completed" THEN emit(w1, "step_completed", goalId, "")
       ELSE IF updates.status = "failed" THEN emit(w1, "step_failed", goalId, "")
       ELSE w1

stepsWithStatus(w, goalId, status) ==
  {id \in stepIds(w, goalId) : stepOf(w, goalId, id).status = status}

\* GoalManager.getNextPendingStep (NoStep: undefined)
getNextPendingStep(w, goalId) ==
  LET pending == stepsWithStatus(w, goalId, "pending") IN
  IF pending = {} THEN NoStep
  ELSE CHOOSE id \in pending : \A other \in pending : id[2] <= other[2]

\* GoalManager.getBlockedStep (NoStep: undefined)
getBlockedStep(w, goalId) ==
  LET blocked == stepsWithStatus(w, goalId, "blocked") IN
  IF blocked = {} THEN NoStep
  ELSE CHOOSE id \in blocked : \A other \in blocked : id[2] <= other[2]

\* ---------------------------------------------------------------- Adversary
\* a call of the Adversary suspends on llm.complete
suspend(w, kind, goalId, stepId, result, from) ==
  LET free == {t \in ThreadIds : w.threads[t].kind = "idle"} IN
  IF free = {} THEN [w EXCEPT !.overflow = TRUE]
  ELSE LET t == CHOOSE x \in free : \A y \in free : x <= y IN
       [w EXCEPT !.threads[t] = [kind |-> kind, goalId |-> goalId, stepId |-> stepId,
                                 result |-> result, from |-> from]]

activeGoalsDelete(w, goalId) == [w EXCEPT !.activeGoals = @ \ {goalId}]

retryCount(w, stepId) ==
  IF \E e \in w.retryMap : e[1] = stepId
  THEN (CHOOSE e \in w.retryMap : e[1] = stepId)[2] ELSE 0

retryMapDelete(w, stepId) == [w EXCEPT !.retryMap = {e \in @ : e[1] # stepId}]

retryMapSet(w, stepId, n) ==
  [w EXCEPT !.retryMap = {e \in @ : e[1] # stepId} \cup {<<stepId, n>>}]

\* AdversaryAgent.generatePlan up to its Oracle call
generatePlan(w, goalId) ==
  suspend([w EXCEPT !.reconResults = @ \ {goalId}], "plan", goalId, NoStep, "null", "")

\* AdversaryAgent.executeNextStep up to its Oracle call
executeNextStep(w, goalId) ==
  IF w.goals[goalId] # "active" THEN activeGoalsDelete(w, goalId)
  ELSE IF ~hasPlan(w, goalId) THEN activeGoalsDelete(w, goalId)
  ELSE
    LET step == getNextPendingStep(w, goalId) IN
    IF step = NoStep
    THEN IF \A id \in stepIds(w, goalId) :
               stepOf(w, goalId, id).status \in {"completed", "skipped"}
         THEN IF w.plans[goalId].recurring THEN activeGoalsDelete(w, goalId)
              ELSE activeGoalsDelete(updateGoal(w, goalId, "completed"), goalId)
         ELSE generatePlan(w, goalId)
    ELSE suspend(w, "craft", goalId, step, "null", "")

\* a continuation that completes the goal whether or not the plan is recurring
evaluateAndContinueOnce(w, goalId) ==
  IF w.goals[goalId] # "active" THEN activeGoalsDelete(w, goalId)
  ELSE IF ~hasPlan(w, goalId) THEN activeGoalsDelete(w, goalId)
  ELSE IF getNextPendingStep(w, goalId) # NoStep THEN executeNextStep(w, goalId)
  ELSE
    LET failed == Cardinality(stepsWithStatus(w, goalId, "failed"))
        completed == Cardinality(stepsWithStatus(w, goalId, "completed"))
        blocked == Cardinality(stepsWithStatus(w, goalId, "blocked"))
        total == Len(w.plans[goalId].steps)
    IN IF blocked > 0 THEN activeGoalsDelete(w, goalId)
       ELSE IF failed = 0 /\ completed = total
       THEN activeGoalsDelete(updateGoal(w, goalId, "completed"), goalId)
       ELSE IF failed > 0 /\ completed + failed = total THEN generatePlan(w, goalId)
       ELSE activeGoalsDelete(w, goalId)

\* a continuation that leaves the goal in activeGoals when it completes it
evaluateAndContinueKeeps(w, goalId) ==
  IF w.goals[goalId] # "active" THEN activeGoalsDelete(w, goalId)
  ELSE IF ~hasPlan(w, goalId) THEN activeGoalsDelete(w, goalId)
  ELSE IF getNextPendingStep(w, goalId) # NoStep THEN executeNextStep(w, goalId)
  ELSE
    LET failed == Cardinality(stepsWithStatus(w, goalId, "failed"))
        completed == Cardinality(stepsWithStatus(w, goalId, "completed"))
        blocked == Cardinality(stepsWithStatus(w, goalId, "blocked"))
        total == Len(w.plans[goalId].steps)
    IN IF blocked > 0 THEN activeGoalsDelete(w, goalId)
       ELSE IF failed = 0 /\ completed = total
       THEN IF w.plans[goalId].recurring THEN w
            ELSE updateGoal(w, goalId, "completed")
       ELSE IF failed > 0 /\ completed + failed = total THEN generatePlan(w, goalId)
       ELSE activeGoalsDelete(w, goalId)

\* AdversaryAgent.evaluateAndContinue up to its first Oracle call
evaluateAndContinue(w, goalId) ==
  IF w.goals[goalId] # "active" THEN activeGoalsDelete(w, goalId)
  ELSE IF ~hasPlan(w, goalId) THEN activeGoalsDelete(w, goalId)
  ELSE IF getNextPendingStep(w, goalId) # NoStep THEN executeNextStep(w, goalId)
  ELSE
    LET failed == Cardinality(stepsWithStatus(w, goalId, "failed"))
        completed == Cardinality(stepsWithStatus(w, goalId, "completed"))
        blocked == Cardinality(stepsWithStatus(w, goalId, "blocked"))
        total == Len(w.plans[goalId].steps)
    IN IF blocked > 0 THEN activeGoalsDelete(w, goalId)
       ELSE IF failed = 0 /\ completed = total
       THEN IF w.plans[goalId].recurring THEN activeGoalsDelete(w, goalId)
            ELSE activeGoalsDelete(updateGoal(w, goalId, "completed"), goalId)
       ELSE IF failed > 0 /\ completed + failed = total THEN generatePlan(w, goalId)
       ELSE activeGoalsDelete(w, goalId)

\* the dispatch shared by executeStepWithInstruction and reply: the task, the
\* correlation entry, Bridge.executeTask and the handling of its failure
dispatchStep(w, goalId, stepId, failure) ==
  LET agentId == GoalAgent(goalId)
      w1 == createTask(w)
      taskId == w1.numTasks
      w2 == assignTask(assignAgent(w1, taskId, agentId), agentId, taskId)
      w3 == updatePlanStep(w2, goalId, stepId, [taskId |-> taskId])
      w4 == [w3 EXCEPT !.stepTaskMap[taskId] = [goalId |-> goalId, stepId |-> stepId]]
  IN IF w1.overflow THEN w1
     ELSE IF executeTaskSuccess(w4, agentId, taskId)
     THEN executeTask(w4, agentId, taskId)
     ELSE LET w5 == updatePlanStep(executeTask(w4, agentId, taskId), goalId, stepId,
                                   [status |-> "failed", result |-> failure])
              w6 == [w5 EXCEPT !.stepTaskMap[taskId] = NoMapping]
          IN evaluateAndContinue(w6, goalId)

\* AdversaryAgent.executeStepWithInstruction
executeStepWithInstruction(w, goalId, stepId) ==
  dispatchStep(updatePlanStep(w, goalId, stepId, [status |-> "in_progress"]),
               goalId, stepId, "failed_to_start")

\* AdversaryAgent.gatherContext
gatherContext(w, goalId) ==
  LET agentId == GoalAgent(goalId)
      w1 == createTask(w)
      taskId == w1.numTasks
      w2 == assignTask(assignAgent(w1, taskId, agentId), agentId, taskId)
      w3 == [w2 EXCEPT !.reconTaskMap[taskId] = goalId]
  IN IF w1.overflow THEN w1
     ELSE IF executeTaskSuccess(w3, agentId, taskId)
     THEN executeTask(w3, agentId, taskId)
     ELSE generatePlan([executeTask(w3, agentId, taskId) EXCEPT !.reconTaskMap[taskId] = 0],
                       goalId)

\* AdversaryAgent.tryAnswerOrEscalate up to its Oracle call
tryAnswerOrEscalate(w, goalId, stepId, workerResult) ==
  IF ~hasPlan(w, goalId) \/ stepId \notin stepIds(w, goalId)
  THEN activeGoalsDelete(w, goalId)
  ELSE suspend(w, "triage", goalId, stepId, workerResult, "")

\* AdversaryAgent.evaluateStepResult up to its Oracle call
evaluateStepResult(w, goalId, stepId, result) ==
  IF ~hasPlan(w, goalId) \/ stepId \notin stepIds(w, goalId)
  THEN activeGoalsDelete(w, goalId)
  ELSE suspend(w, "eval", goalId, stepId, result, "")

\* AdversaryAgent.refinePlan up to its Oracle call, and, when it returns
\* without one, the evaluateAndContinue that follows it in evaluateStepResult
refinePlanThenContinue(w, goalId) ==
  IF hasPlan(w, goalId) /\ stepsWithStatus(w, goalId, "pending") # {}
     /\ stepsWithStatus(w, goalId, "completed") # {}
  THEN suspend(w, "refine", goalId, <<w.plans[goalId].version, 0>>, "null", "")
  ELSE evaluateAndContinue(w, goalId)

\* the listener of session_ended that setupListeners registers
adversaryOnSessionEnded(w, taskId, status) ==
  IF taskId \notin TaskIds THEN w
  ELSE IF w.reconTaskMap[taskId] # 0
  THEN LET goalId == w.reconTaskMap[taskId]
           w1 == [w EXCEPT !.reconTaskMap[taskId] = 0]
           result == w1.tasks[taskId].result
       IN IF status = "completed" /\ result # "null"
          THEN generatePlan([w1 EXCEPT !.reconResults = @ \cup {goalId}], goalId)
          ELSE generatePlan(w1, goalId)
  ELSE IF w.stepTaskMap[taskId].goalId = 0 THEN w
  ELSE LET goalId == w.stepTaskMap[taskId].goalId
           stepId == w.stepTaskMap[taskId].stepId
           w1 == [w EXCEPT !.stepTaskMap[taskId] = NoMapping]
           result == IF w1.tasks[taskId].result # "null" THEN w1.tasks[taskId].result
                     ELSE IF status = "completed" THEN "text" ELSE "error"
       IN IF status = "completed"
          THEN IF result = "needs_input"
               THEN tryAnswerOrEscalate(w1, goalId, stepId, result)
               ELSE evaluateStepResult(w1, goalId, stepId, result)
          ELSE evaluateAndContinue(
                 updatePlanStep(w1, goalId, stepId,
                                [status |-> "failed", result |-> "error"]),
                 goalId)

\* a wake without the check of Bridge.isExecuting
wakeWhileBusy(w, goalId) ==
  LET w1 == IF w.goals[goalId] = "paused" THEN resumeGoal(w, goalId) ELSE w IN
  IF w1.goals[goalId] # "active" THEN w1
  ELSE IF goalId \in w1.activeGoals THEN w1
  ELSE
    LET w2 == [w1 EXCEPT !.activeGoals = @ \cup {goalId}] IN
    IF getBlockedStep(w2, goalId) # NoStep THEN activeGoalsDelete(w2, goalId)
    ELSE IF ~hasPlan(w2, goalId) \/ getNextPendingStep(w2, goalId) = NoStep
    THEN gatherContext(w2, goalId)
    ELSE executeNextStep(w2, goalId)

\* AdversaryAgent.wake
wake(w, goalId) ==
  LET w1 == IF w.goals[goalId] = "paused" THEN resumeGoal(w, goalId) ELSE w IN
  IF w1.goals[goalId] # "active" THEN w1
  ELSE IF goalId \in w1.activeGoals THEN w1
  ELSE IF isExecuting(w1, GoalAgent(goalId)) THEN w1
  ELSE
    LET w2 == [w1 EXCEPT !.activeGoals = @ \cup {goalId}] IN
    IF getBlockedStep(w2, goalId) # NoStep THEN activeGoalsDelete(w2, goalId)
    ELSE IF ~hasPlan(w2, goalId) \/ getNextPendingStep(w2, goalId) = NoStep
    THEN gatherContext(w2, goalId)
    ELSE executeNextStep(w2, goalId)

\* AdversaryAgent.pause
pause(w, goalId) == activeGoalsDelete(pauseGoal(w, goalId), goalId)

\* a reply that resumes whether or not a step is blocked
replyUnchecked(w, goalId) ==
  LET blockedStep == getBlockedStep(w, goalId)
      w1 == updatePlanStep(w, goalId, blockedStep,
                           [status |-> "in_progress", question |-> FALSE])
      w2 == [w1 EXCEPT !.activeGoals = @ \cup {goalId}]
  IN suspend(w2, "craftReply", goalId, blockedStep, "null", "reply")

\* AdversaryAgent.reply up to its Oracle call
reply(w, goalId) ==
  LET blockedStep == getBlockedStep(w, goalId) IN
  IF blockedStep = NoStep THEN w
  ELSE
    LET w1 == updatePlanStep(w, goalId, blockedStep,
                             [status |-> "in_progress", question |-> FALSE])
        w2 == [w1 EXCEPT !.activeGoals = @ \cup {goalId}]
    IN suspend(w2, "craftReply", goalId, blockedStep, "null", "reply")

\* a planning that gives up without failing the goal
generatePlanResumeLenient(w, goalId, n, recurring) ==
  IF n = 0 THEN activeGoalsDelete(w, goalId)
  ELSE executeNextStep(setPlan(w, goalId, n, recurring), goalId)

\* AdversaryAgent.generatePlan after its Oracle call; n = 0 stands for an
\* Oracle error and for a response parsePlanFromResult gets no step from
generatePlanResume(w, goalId, n, recurring) ==
  IF n = 0 THEN activeGoalsDelete(updateGoal(w, goalId, "failed"), goalId)
  ELSE executeNextStep(setPlan(w, goalId, n, recurring), goalId)

\* AdversaryAgent.refinePlan after its Oracle call: the pending steps of the
\* plan the call started with whose order is in skip become skipped
refinePlanResume(w, goalId, version, skip) ==
  LET ids == IF w.plans[goalId].version = version
             THEN {id \in stepsWithStatus(w, goalId, "pending") : id[2] \in skip}
             ELSE {}
  IN [w EXCEPT !.plans[goalId].steps =
        [i \in DOMAIN @ |-> IF <<version, i>> \in ids
                            THEN [@[i] EXCEPT !.status = "skipped"] ELSE @[i]]]

\* AdversaryAgent.evaluateStepResult after its Oracle call
evaluateStepResultResume(w, goalId, stepId, result, verdict) ==
  IF verdict = "PASS"
  THEN refinePlanThenContinue(
         updatePlanStep(retryMapDelete(w, stepId), goalId, stepId,
                        [status |-> "completed", result |-> result]),
         goalId)
  ELSE IF verdict = "RETRY" /\ retryCount(w, stepId) < 2
  THEN executeStepWithInstruction(
         updatePlanStep(retryMapSet(w, stepId, retryCount(w, stepId) + 1),
                        goalId, stepId, [status |-> "pending"]),
         goalId, stepId)
  ELSE tryAnswerOrEscalate(retryMapDelete(w, stepId), goalId, stepId, result)

\* AdversaryAgent.tryAnswerOrEscalate after its Oracle call
tryAnswerOrEscalateResume(w, goalId, stepId, workerResult, canAnswer) ==
  IF canAnswer
  THEN suspend(updatePlanStep(w, goalId, stepId,
                              [status |-> "in_progress", question |-> FALSE]),
               "craftReply", goalId, stepId, "null", "triage")
  ELSE emit(updatePlanStep(w, goalId, stepId,
                           [status |-> "blocked", question |-> TRUE,
                            result |-> workerResult]),
            "question_raised", goalId, "")

\* the code after craftReplyInstruction, in tryAnswerOrEscalate and in reply
craftReplyResume(w, goalId, stepId, from) ==
  IF from = "reply" THEN dispatchStep(w, goalId, stepId, "failed_to_resume")
  ELSE executeStepWithInstruction(w, goalId, stepId)

\* a trigger that fires for paused goals too
fireTriggerWhenPaused(w, goalId) ==
  IF w.goals[goalId] \in {"completed", "failed"} THEN w
  ELSE IF goalId \in w.activeGoals THEN w
  ELSE wake(emit(w, "trigger_fired", goalId, ""), goalId)

\* TriggerScheduler.fireTrigger
fireTrigger(w, goalId) ==
  IF w.goals[goalId] \in {"paused", "completed", "failed"} THEN w
  ELSE IF goalId \in w.activeGoals THEN w
  ELSE wake(emit(w, "trigger_fired", goalId, ""), goalId)

\* ---------------------------------------------------------------- session end
\* the listener of session_ended that ClaudeCodeBridge.setupSessionListeners registers
bridgeOnSessionEnded(w, sessionId, status) ==
  LET session == w.sessions[sessionId]
      agentId == session.agentId
      taskId == session.taskId
      result == IF session.hasAssistant /\ session.marker THEN "needs_input" ELSE "text"
  IN IF session.status = "waiting_input" THEN w
     ELSE
       LET w1 == IF status = "completed"
                 THEN unassignTask(
                        incrementTasksCompleted(completeTask(w, taskId, result), agentId),
                        agentId)
                 ELSE IF status = "error"
                 THEN unassignTask(failTask(w, taskId), agentId)
                 ELSE w
       IN [w1 EXCEPT !.activeExecutions[agentId] = FALSE]

\* an endSession without the guard against double-ending
endSessionUnguarded(w, sessionId, status) ==
  IF w.sessions[sessionId].status = "none" THEN w
  ELSE
    LET agentId == w.sessions[sessionId].agentId
        taskId == w.sessions[sessionId].taskId
        w1 == [w EXCEPT !.sessions[sessionId].status = status,
                        !.agentSessionMap[agentId] = 0]
        w2 == emit(emit(w1, "session_status_changed", sessionId, status),
                   "session_ended", sessionId, status)
    IN adversaryOnSessionEnded(bridgeOnSessionEnded(w2, sessionId, status), taskId, status)

\* SessionManager.endSession, with the listeners of session_ended in the order
\* of their registration: the Bridge's, then the Adversary's
endSession(w, sessionId, status) ==
  IF w.sessions[sessionId].status \in {"none", "completed", "error"} THEN w
  ELSE
    LET agentId == w.sessions[sessionId].agentId
        taskId == w.sessions[sessionId].taskId
        w1 == [w EXCEPT !.sessions[sessionId].status = status,
                        !.agentSessionMap[agentId] = 0]
        w2 == emit(emit(w1, "session_status_changed", sessionId, status),
                   "session_ended", sessionId, status)
    IN adversaryOnSessionEnded(bridgeOnSessionEnded(w2, sessionId, status), taskId, status)

\* SessionManager.stopSession
stopSession(w, sessionId) ==
  IF w.sessions[sessionId].status = "none" THEN w
  ELSE endSession(runtimeStopSession(w, sessionId), sessionId, "error")

\* SessionManager.denyPermission
denyPermission(w, sessionId) == endSession(w, sessionId, "completed")

\* a handler without the waiting_input check before endSession
handleStreamEventEndsWaiting(w, sessionId, event) ==
  LET session == w.sessions[sessionId] IN
  IF session.status = "none" THEN w
  ELSE IF event.type = "result" /\ event.subtype \in {"close", "success", "error"}
  THEN
    LET w1 == IF event.hasResult /\ ~session.hasAssistant
              THEN emit([w EXCEPT !.sessions[sessionId].hasAssistant = TRUE,
                                  !.sessions[sessionId].marker = event.marker],
                        "session_message", sessionId, "assistant")
              ELSE w
    IN IF Len(event.denials) > 0
       THEN LET unique == uniqueDenials(event.denials)
                w2 == [w1 EXCEPT !.sessions[sessionId].pendingPermissions = unique,
                                 !.sessions[sessionId].status = "waiting_input"]
                w3 == emit(w2, "session_status_changed", sessionId, "waiting_input")
            IN emitPermissionRequests(w3, sessionId, unique, 1)
       ELSE endSession(w1, sessionId,
                       IF event.subtype = "error" THEN "error" ELSE "completed")
  ELSE
    LET type == parseStreamEvent(event) IN
    IF type = "" THEN w
    ELSE emit([w EXCEPT !.sessions[sessionId].hasAssistant = @ \/ (type = "assistant"),
                        !.sessions[sessionId].marker =
                           @ \/ (type = "assistant" /\ event.marker)],
              "session_message", sessionId, type)

\* SessionManager.handleStreamEvent
handleStreamEvent(w, sessionId, event) ==
  LET session == w.sessions[sessionId] IN
  IF session.status = "none" THEN w
  ELSE IF event.type = "result" /\ event.subtype \in {"close", "success", "error"}
  THEN
    LET w1 == IF event.hasResult /\ ~session.hasAssistant
              THEN emit([w EXCEPT !.sessions[sessionId].hasAssistant = TRUE,
                                  !.sessions[sessionId].marker = event.marker],
                        "session_message", sessionId, "assistant")
              ELSE w
    IN IF Len(event.denials) > 0
       THEN LET unique == uniqueDenials(event.denials)
                w2 == [w1 EXCEPT !.sessions[sessionId].pendingPermissions = unique,
                                 !.sessions[sessionId].status = "waiting_input"]
                w3 == emit(w2, "session_status_changed", sessionId, "waiting_input")
            IN emitPermissionRequests(w3, sessionId, unique, 1)
       ELSE IF session.status = "waiting_input" THEN w1
       ELSE endSession(w1, sessionId,
                       IF event.subtype = "error" THEN "error" ELSE "completed")
  ELSE
    LET type == parseStreamEvent(event) IN
    IF type = "" THEN w
    ELSE emit([w EXCEPT !.sessions[sessionId].hasAssistant = @ \/ (type = "assistant"),
                        !.sessions[sessionId].marker =
                           @ \/ (type = "assistant" /\ event.marker)],
              "session_message", sessionId, type)

\* ---------------------------------------------------------------- Bridge commands
\* ClaudeCodeBridge.sendMessageToAgent and continueConversation
continueConversation(w, agentId) ==
  LET sessionId == getActiveSessionForAgent(w, agentId) IN
  IF sessionId = 0 THEN w ELSE sendMessage(w, sessionId, "user", {})

\* ClaudeCodeBridge.startConversation
startConversation(w, agentId) ==
  LET sessionId == getActiveSessionForAgent(w, agentId) IN
  IF sessionId # 0 THEN sendMessage(w, sessionId, "user", {})
  ELSE startSession(emit(w, "conversation_started", 0, ""), agentId, conversationTaskId)

\* ClaudeCodeBridge.approveToolPermission
approveToolPermission(w, agentId, toolName) ==
  LET sessionId == getActiveSessionForAgent(w, agentId) IN
  IF sessionId = 0 THEN addApprovedTool(w, agentId, toolName)
  ELSE
    LET resolved == approveResolved(w, sessionId, toolName)
        allApproved == approveAllApproved(w, sessionId, toolName)
        w1 == addApprovedTool(approvePermission(w, sessionId, toolName), agentId, resolved)
    IN IF allApproved THEN resumeSession(w1, sessionId, w1.approvedTools[agentId])
       ELSE w1

\* ClaudeCodeBridge.denyToolPermission
denyToolPermission(w, agentId) ==
  LET sessionId == getActiveSessionForAgent(w, agentId) IN
  IF sessionId = 0 THEN w ELSE denyPermission(w, sessionId)

\* ClaudeCodeBridge.cancelExecution; NodeAdapter.claudeCodeCancel always fails
cancelExecution(w, agentId) ==
  LET sessionId == getActiveSessionForAgent(w, agentId) IN
  IF sessionId = 0 THEN w
  ELSE updateAgentState(
         [stopSession(w, sessionId) EXCEPT !.activeExecutions[agentId] = FALSE],
         agentId, "idle")

\* ---------------------------------------------------------------- subprocess events
\* the stdout 'data' listener of spawnSessionProcess, for one line
onStdout(w, p, event) ==
  IF isSuperseded(w, p) THEN w ELSE handleStreamEvent(w, w.procs[p].sid, event)

\* the stderr 'data' listener of spawnSessionProcess
onStderr(w, p) ==
  IF isSuperseded(w, p) THEN w
  ELSE handleStreamEvent(w, w.procs[p].sid, StreamEvent("system", "stderr", FALSE, <<>>, FALSE))

\* the 'close' listener of spawnSessionProcess; flush is the event parsed from
\* the unterminated last line, a content_block_stop when there is none to deliver
onClose(w, p, exitCode, flush) ==
  \* hasErrored belongs to the listeners' closure, which is dropped with the exit
  LET w0 == [w EXCEPT !.procs[p].st = "closed", !.procs[p].hasErrored = FALSE] IN
  IF isSuperseded(w, p) \/ w.procs[p].hasErrored THEN w0
  ELSE
    LET sessionId == w.procs[p].sid
        w1 == handleStreamEvent(w0, sessionId, flush)
        w2 == [w1 EXCEPT !.sessionProcesses[sessionId] = 0]
        subtype == IF exitCode # "null" /\ exitCode # "0" THEN "error" ELSE "close"
    IN handleStreamEvent(w2, sessionId, StreamEvent("result", subtype, FALSE, <<>>, FALSE))

\* the 'error' listener of spawnSessionProcess
onError(w, p) ==
  IF isSuperseded(w, p) THEN w
  ELSE
    LET sessionId == w.procs[p].sid
        w1 == [w EXCEPT !.procs[p].hasErrored = TRUE, !.sessionProcesses[sessionId] = 0]
    IN handleStreamEvent(w1, sessionId, StreamEvent("result", "error", FALSE, <<>>, FALSE))

\* ---------------------------------------------------------------- initial state
\* after construction: agents hired, one active goal per goal id, nothing running
\* the state after construction, the plans apart
\* the state after construction, except what the managers load from disk
InitExceptSaved ==
  /\ sessions = [s \in SessionIds |-> NoSession]
  /\ numSessions = 0
  /\ agentSessionMap = [a \in Agents |-> 0]
  /\ activeExecutions = [a \in Agents |-> FALSE]
  /\ approvedTools = [a \in Agents |-> BASELINE_TOOLS]
  /\ tasksCompleted = [a \in Agents |-> 0]
  /\ procs = [p \in ProcIds |-> NoProc]
  /\ numProcs = 0
  /\ sessionProcesses = [s \in SessionIds |-> 0]
  /\ published = <<>>
  /\ sent = <<>>
  /\ createdCount = [s \in SessionIds |-> 0]
  /\ endedCount = [s \in SessionIds |-> 0]
  /\ goals = [g \in Goals |-> "active"]
  /\ activeGoals = {}
  /\ stepTaskMap = [t \in TaskIds |-> NoMapping]
  /\ reconTaskMap = [t \in TaskIds |-> 0]
  /\ reconResults = {}
  /\ retryMap = {}
  /\ threads = [t \in ThreadIds |-> NoThread]
  /\ preferences = [a \in Agents |-> <<>>]
  /\ roster = <<>>
  /\ numHired = 0
  /\ usedNames = {}

InitExceptPlans ==
  /\ InitExceptSaved
  /\ agentState = [a \in Agents |-> "idle"]
  /\ currentTaskId = [a \in Agents |-> -1]
  /\ tasks = [t \in TaskIds |-> NoTask]
  /\ numTasks = 0

Init == InitExceptPlans /\ plans = [g \in Goals |-> NoPlan]

\* ---------------------------------------------------------------- operator steps
\* the "assign task" handler of the front-end: a new task, then Bridge.executeTask
assignNewTask(w, agentId) ==
  LET w1 == createTask(w)
      taskId == w1.numTasks
  IN IF w1.overflow THEN w1
     ELSE executeTask(assignTask(assignAgent(w1, taskId, agentId), agentId, taskId),
                      agentId, taskId)

AssignTask(a) == Commit(assignNewTask(World, a))
StartConversation(a) == Commit(startConversation(World, a))
ContinueConversation(a) == Commit(continueConversation(World, a))
ApproveTool(a, tool) == Commit(approveToolPermission(World, a, tool))
DenyTool(a) == Commit(denyToolPermission(World, a))
CancelExecution(a) == Commit(cancelExecution(World, a))

\* ---------------------------------------------------------------- subprocess steps
Live(p) == procs[p].st = "live"

\* the unterminated last line of a subprocess, which its close listener flushes
NoFlush == StreamEvent("content_block_stop", "", FALSE, <<>>, FALSE)
FlushEvents ==
  {NoFlush,
   StreamEvent("result", "success", FALSE, <<>>, FALSE),
   StreamEvent("result", "success", FALSE, <<"Bash">>, FALSE)}

ExitCodes == {"0", "1", "null"}

Stdout(p, event) == Live(p) /\ Commit(onStdout(World, p, event))
Stderr(p) == Live(p) /\ Commit(onStderr(World, p))
Close(p, exitCode, flush) == Live(p) /\ Commit(onClose(World, p, exitCode, flush))
Error(p) == Live(p) /\ ~procs[p].hasErrored /\ Commit(onError(World, p))

\* ---------------------------------------------------------------- session layer
Next ==
  \/ \E a \in Agents : AssignTask(a)
  \/ \E a \in Agents : StartConversation(a)
  \/ \E a \in Agents : ContinueConversation(a)
  \/ \E a \in Agents : ApproveTool(a, "Bash")
  \/ \E a \in Agents : DenyTool(a)
  \/ \E a \in Agents : CancelExecution(a)
  \/ \E p \in ProcIds, event \in WorkerEvents : Stdout(p, event)
  \/ \E p \in ProcIds : Stderr(p)
  \/ \E p \in ProcIds, exitCode \in ExitCodes, flush \in FlushEvents : Close(p, exitCode, flush)
  \/ \E p \in ProcIds : Error(p)

Spec == Init /\ [][Next]_vars

\* ---------------------------------------------------------------- permission flow
\* one task at a time, with every shape of permission_denials
NextPerm ==
  \/ \E a \in Agents : AssignTask(a)
  \/ \E a \in Agents, tool \in ApprovableTools : ApproveTool(a, tool)
  \/ \E a \in Agents : DenyTool(a)
  \/ \E p \in ProcIds, event \in PermissionEvents : Stdout(p, event)
  \/ \E p \in ProcIds, exitCode \in ExitCodes : Close(p, exitCode, NoFlush)

SpecPerm == Init /\ [][NextPerm]_vars

\* ---------------------------------------------------------------- adversary loop
\* the plan GoalManager.initialize loads for a goal that was saved with one
SavedPlan == [version |-> 1, steps |-> [i \in 1..MaxSteps |-> NewStep], recurring |-> FALSE]

\* the state after construction and GoalManager.initialize
InitAdv == InitExceptPlans /\ plans \in [Goals -> {NoPlan, SavedPlan}]

Wake(g) == Commit(wake(World, g))
Pause(g) == Commit(pause(World, g))
Reply(g) == Commit(reply(World, g))
FireTrigger(g) == Commit(fireTrigger(World, g))

\* the world in which the Oracle call of thread t has returned
Returned(t) == [World EXCEPT !.threads[t] = NoThread]

Verdicts == {"PASS", "RETRY", "ESCALATE"}

PlanOracle(t, n, recurring) ==
  /\ threads[t].kind = "plan"
  /\ Commit(generatePlanResume(Returned(t), threads[t].goalId, n, recurring))
CraftOracle(t) ==
  /\ threads[t].kind = "craft"
  /\ Commit(executeStepWithInstruction(Returned(t), threads[t].goalId, threads[t].stepId))
EvalOracle(t, verdict) ==
  /\ threads[t].kind = "eval"
  /\ Commit(evaluateStepResultResume(Returned(t), threads[t].goalId, threads[t].stepId,
                                     threads[t].result, verdict))
RefineOracle(t, skip) ==
  /\ threads[t].kind = "refine"
  /\ Commit(evaluateAndContinue(
              refinePlanResume(Returned(t), threads[t].goalId, threads[t].stepId[1], skip),
              threads[t].goalId))
TriageOracle(t, canAnswer) ==
  /\ threads[t].kind = "triage"
  /\ Commit(tryAnswerOrEscalateResume(Returned(t), threads[t].goalId, threads[t].stepId,
                                      threads[t].result, canAnswer))
CraftReplyOracle(t) ==
  /\ threads[t].kind = "craftReply"
  /\ Commit(craftReplyResume(Returned(t), threads[t].goalId, threads[t].stepId,
                             threads[t].from))

\* what a worker subprocess writes on stdout when the adversary loop is explored
AdversaryWorkerEvents ==
  {StreamEvent("assistant", "", FALSE, <<>>, FALSE),
   StreamEvent("assistant", "", FALSE, <<>>, TRUE),
   StreamEvent("result", "success", FALSE, <<>>, FALSE),
   StreamEvent("result", "error", FALSE, <<>>, FALSE)}

NextAdv ==
  \/ \E g \in Goals : Wake(g)
  \/ \E g \in Goals : Pause(g)
  \/ \E g \in Goals : Reply(g)
  \/ \E g \in Goals : FireTrigger(g)
  \/ \E t \in ThreadIds, n \in 0..MaxSteps, recurring \in BOOLEAN : PlanOracle(t, n, recurring)
  \/ \E t \in ThreadIds : CraftOracle(t)
  \/ \E t \in ThreadIds, verdict \in Verdicts : EvalOracle(t, verdict)
  \/ \E t \in ThreadIds, skip \in SUBSET (1..MaxSteps) : RefineOracle(t, skip)
  \/ \E t \in ThreadIds, canAnswer \in BOOLEAN : TriageOracle(t, canAnswer)
  \/ \E t \in ThreadIds : CraftReplyOracle(t)
  \/ \E p \in ProcIds, event \in AdversaryWorkerEvents : Stdout(p, event)
  \/ \E p \in ProcIds, exitCode \in ExitCodes : Close(p, exitCode, NoFlush)

SpecAdv == InitAdv /\ [][NextAdv]_vars

\* ---------------------------------------------------------------- recurring goals
\* the plan GoalManager.initialize loads for a goal saved with a recurring plan
RecurringPlan == [version |-> 1, steps |-> <<NewStep>>, recurring |-> TRUE]

InitCycle == InitExceptPlans /\ plans = [g \in Goals |-> RecurringPlan]

\* the adversary loop on one-step plans, which refinePlan never asks the Oracle about
NextCycle ==
  \/ \E g \in Goals : Wake(g)
  \/ \E g \in Goals : Pause(g)
  \/ \E g \in Goals : Reply(g)
  \/ \E g \in Goals : FireTrigger(g)
  \/ \E t \in ThreadIds, recurring \in BOOLEAN : PlanOracle(t, 1, recurring)
  \/ \E t \in ThreadIds : PlanOracle(t, 0, FALSE)
  \/ \E t \in ThreadIds : CraftOracle(t)
  \/ \E t \in ThreadIds, verdict \in Verdicts : EvalOracle(t, verdict)
  \/ \E t \in ThreadIds, canAnswer \in BOOLEAN : TriageOracle(t, canAnswer)
  \/ \E t \in ThreadIds : CraftReplyOracle(t)
  \/ \E p \in ProcIds, event \in AdversaryWorkerEvents : Stdout(p, event)
  \/ \E p \in ProcIds, exitCode \in ExitCodes : Close(p, exitCode, NoFlush)

SpecCycle == InitCycle /\ [][NextCycle]_vars

\* ---------------------------------------------------------------- properties
liveSessionsOf(a) ==
  {s \in SessionIds : sessions[s].agentId = a /\ sessions[s].status \in LiveStatuses}

eventsOfType(type) == SelectSeq(published, LAMBDA e : e.type = type)

\* a step of the stdout, stderr, close or error listener of subprocess p
ProcessEvent(p) ==
  \/ \E event \in WorkerEvents : Stdout(p, event)
  \/ Stderr(p)
  \/ \E exitCode \in ExitCodes, flush \in FlushEvents : Close(p, exitCode, flush)
  \/ Error(p)

\* C1: for every agent, at every reachable state, at most one of its sessions
\* has status starting, active or waiting_input.
AtMostOneLiveSession == \A a \in Agents : Cardinality(liveSessionsOf(a)) <= 1

\* C4: for every agent, at every reachable state, activeExecutions[agentId] is
\* true if and only if the agent has a session in starting, active or
\* waiting_input.
ActiveExecutionsIffLiveSession ==
  \A a \in Agents : activeExecutions[a] <=> liveSessionsOf(a) # {}

\* C5: no event of a worker subprocess (stdout line, stderr, close, error) takes
\* a session from waiting_input to completed or error; only an operator's
\* command does.
WaitingInputEndsByOperatorOnly ==
  [][\A s \in SessionIds :
       (/\ sessions[s].status = "waiting_input"
        /\ sessions'[s].status \in EndStatuses \/ endedCount'[s] # endedCount[s])
         => ~\E p \in ProcIds : ProcessEvent(p)]_vars

\* a session waits for the operator although its subprocess has exited
WaitingInputOutlivesProcess ==
  \E s \in SessionIds, p \in ProcIds :
    /\ sessions[s].status = "waiting_input"
    /\ procs[p].st = "closed" /\ procs[p].sid = s /\ ~procs[p].killed
    /\ sessionProcesses[s] = 0

\* C6: an event of a subprocess that is no longer the registered one of its
\* session (the session was resumed with a new subprocess) is delivered to no
\* subscriber, changes no session and publishes no session_ended.
SupersededProcessIsSilent ==
  [][\A p \in ProcIds :
       (/\ Live(p) /\ sessionProcesses[procs[p].sid] # p
        /\ published' # <<>> \/ sessions' # sessions \/ endedCount' # endedCount)
         => ~ProcessEvent(p)]_vars

\* the killed subprocess of a resumed session has exited and the session lives on
SupersededProcessClosed ==
  \E p, q \in ProcIds :
    /\ procs[p].st = "closed" /\ procs[p].killed
    /\ procs[q].st = "live" /\ procs[q].sid = procs[p].sid
    /\ sessionProcesses[procs[p].sid] = q
    /\ sessions[procs[p].sid].status = "active"

\* C7: once a session is completed or error, an event of its subprocess
\* leaves its status unchanged and publishes no further session_ended.
EndedSessionStaysEnded ==
  [][\A s \in SessionIds :
       (/\ sessions[s].status \in EndStatuses
        /\ sessions'[s].status # sessions[s].status \/ endedCount'[s] # endedCount[s])
         => ~\E p \in ProcIds : ProcessEvent(p)]_vars

\* C8: every published session_ended is preceded by exactly one session_created
\* with the same sessionId.
EndedAfterExactlyOneCreated ==
  \A i \in 1..Len(published) :
    published[i].type = "session_ended" =>
      /\ createdCount[published[i].sid] = 1
      /\ \A j \in i..Len(published) :
           ~(published[j].type = "session_created" /\ published[j].sid = published[i].sid)

\* a session_ended has just been published
SessionEndedPublished == Len(eventsOfType("session_ended")) > 0

\* C9: a terminal result event with a non-empty permission_denials list moves
\* the session to waiting_input, leaves in pendingPermissions exactly one entry
\* per tool name distinct up to letter case, publishes exactly one
\* permission_requested per entry and publishes no session_ended.
DenialsMoveToWaitingInput ==
  [][\A p \in ProcIds, event \in PermissionEvents :
       (/\ Live(p) /\ sessionProcesses[procs[p].sid] = p
        /\ Len(event.denials) > 0
        /\ Stdout(p, event))
         => LET s == procs[p].sid
                denied == [i \in 1..Len(event.denials) |-> denialToolName(event.denials[i])]
                pending == sessions'[s].pendingPermissions
                requested == SelectSeq(published', LAMBDA e : e.type = "permission_requested")
            IN /\ sessions'[s].status = "waiting_input"
               /\ \A i \in 1..Len(denied) : \E j \in 1..Len(pending) :
                    toLowerCase(pending[j]) = toLowerCase(denied[i])
               /\ \A j \in 1..Len(pending) : \E i \in 1..Len(denied) : pending[j] = denied[i]
               /\ \A j, k \in 1..Len(pending) :
                    j # k => toLowerCase(pending[j]) # toLowerCase(pending[k])
               /\ Len(requested) = Len(pending)
               /\ \A j \in 1..Len(pending) :
                    requested[j].arg = pending[j] /\ requested[j].sid = s
               /\ \A i \in 1..Len(published') : published'[i].type # "session_ended"
               /\ endedCount' = endedCount]_vars

\* two tools have just been requested for a session that now waits
TwoPermissionsRequested ==
  \E s \in SessionIds :
    /\ sessions[s].status = "waiting_input"
    /\ Len(sessions[s].pendingPermissions) = 2
    /\ Len(eventsOfType("permission_requested")) = 2
    /\ endedCount[s] = 0

resumeMessage(s) ==
  [op |-> "send", sid |-> s, message |-> "Permission granted. Continue your task."]

\* C10: an approval for a waiting_input session with pending tools resumes the
\* session (resume message sent, status active) exactly when it clears the
\* last pending tool; otherwise the session stays in waiting_input with the
\* remaining tools pending and nothing is sent to the runtime.
ResumeOnlyWhenAllApproved ==
  [][\A a \in Agents, tool \in ApprovableTools :
       LET s == agentSessionMap[a] IN
       (/\ s # 0
        /\ sessions[s].status = "waiting_input"
        /\ Len(sessions[s].pendingPermissions) > 0
        /\ ApproveTool(a, tool))
         => LET remaining == SelectSeq(sessions[s].pendingPermissions,
                                       LAMBDA t : toLowerCase(t) # toLowerCase(tool))
            IN IF remaining = <<>>
               THEN /\ sessions'[s].status = "active"
                    /\ \E i \in 1..Len(sent') : sent'[i] = resumeMessage(s)
               ELSE /\ sessions'[s].status = "waiting_input"
                    /\ sessions'[s].pendingPermissions = remaining
                    /\ sent' = <<>>
                    /\ numProcs' = numProcs]_vars

\* one of two pending tools was approved and the session still waits
PartialApprovalKeepsWaiting ==
  \E s \in SessionIds :
    /\ sessions[s].status = "waiting_input"
    /\ sessions[s].pendingPermissions = <<"Edit">>
    /\ "Bash" \in approvedTools[sessions[s].agentId]
    /\ published = <<>> /\ sent = <<>>

\* C2: at every reachable state each plan has at most one step in in_progress
\* and at most one step in blocked.
AtMostOneStepInFlight ==
  \A g \in Goals :
    /\ Cardinality(stepsWithStatus(World, g, "in_progress")) <= 1
    /\ Cardinality(stepsWithStatus(World, g, "blocked")) <= 1

\* C3: a step task of a goal is dispatched only when no other step task of the
\* goal is outstanding and no verdict on an earlier step of the goal is pending.
StepsDispatchedSequentially ==
  [][\A g \in Goals, t \in TaskIds :
       (stepTaskMap[t].goalId # g /\ stepTaskMap'[t].goalId = g)
         => /\ \A u \in TaskIds \ {t} : stepTaskMap'[u].goalId # g
            /\ \A th \in ThreadIds :
                 ~(threads'[th].goalId = g /\ threads'[th].kind \in {"eval", "triage"})]_vars

\* C11: when approvePermission(sessionId, tool) clears the last pending tool it
\* returns allApproved = true, and a second call with the same tool returns
\* allApproved = true again and changes nothing of the session.
ApprovePermissionIdempotent ==
  \A s \in SessionIds, tool \in ToolNames :
    sessions[s].status # "none" =>
      LET once == approvePermission(World, s, tool) IN
      once.sessions[s].pendingPermissions = <<>> =>
        /\ approveAllApproved(World, s, tool)
        /\ approveAllApproved(once, s, tool)
        /\ approvePermission(once, s, tool) = once

\* the approval of the only pending tool has just resumed the session
LastPendingApproved ==
  \E s \in SessionIds :
    /\ sessions[s].status = "active"
    /\ sessions[s].pendingPermissions = <<>>
    /\ "Edit" \in approvedTools[sessions[s].agentId]
    /\ \E i \in 1..Len(sent) : sent[i] = resumeMessage(s)

\* C12: cancelExecution(agentId) on an agent with a session in starting,
\* active or waiting_input ends that session in error and publishes exactly
\* one session_ended of status error for it.
CancelEndsLiveSessionInError ==
  [][\A a \in Agents : \A s \in liveSessionsOf(a) :
       CancelExecution(a) =>
         /\ sessions'[s].status = "error"
         /\ Len(SelectSeq(published', LAMBDA e : e = Ev("session_ended", s, "error"))) = 1
         /\ Len(SelectSeq(published', LAMBDA e : e.type = "session_ended" /\ e.sid = s)) = 1]_vars

\* a worker task (a step task or a recon task) of goal g is dispatched in this step
Dispatched(g) ==
  \E t \in TaskIds :
    \/ stepTaskMap[t].goalId # g /\ stepTaskMap'[t].goalId = g
    \/ reconTaskMap[t] # g /\ reconTaskMap'[t] = g

\* C13: while a goal stays paused no worker task is dispatched for it, whatever
\* verdict the step that ran at the time of the pause receives.
NoDispatchWhilePaused ==
  [][\A g \in Goals :
       (goals[g] = "paused" /\ goals'[g] = "paused") => ~Dispatched(g)]_vars

\* C14: wake(goalId) dispatches no worker, starts no Oracle call and changes no
\* plan or step when the goal is completed or failed, when the goal is already
\* in activeGoals, or when the goal's agent is busy.
WakeIgnored ==
  [][\A g \in Goals :
       (/\ \/ goals[g] \in {"completed", "failed"}
           \/ g \in activeGoals
           \/ activeExecutions[GoalAgent(g)]
        /\ Wake(g))
         => /\ plans' = plans
            /\ ~Dispatched(g)
            /\ numTasks' = numTasks /\ numSessions' = numSessions
            /\ threads' = threads
            /\ activeGoals' = activeGoals]_vars

\* a wake of a goal whose agent works on a step has just been ignored
WakeIgnoredWhileBusy ==
  \E g \in Goals :
    /\ goals[g] = "active" /\ g \notin activeGoals
    /\ activeExecutions[GoalAgent(g)]
    /\ getNextPendingStep(World, g) # NoStep
    /\ published = <<>>

\* every step of the plan of goal g in world w is completed or skipped
allStepsDone(w, g) ==
  /\ hasPlan(w, g)
  /\ \A id \in stepIds(w, g) : stepOf(w, g, id).status \in {"completed", "skipped"}

\* C15: when a step of an active goal settles so that every step of its
\* non-recurring plan is completed or skipped, the goal becomes completed.
GoalCompletesWhenAllStepsDone ==
  [][\A g \in Goals :
       (/\ goals[g] = "active"
        /\ ~allStepsDone(World, g)
        /\ plans'[g].version = plans[g].version
        /\ ~plans'[g].recurring
        /\ allStepsDone([World EXCEPT !.plans = plans'], g))
         => goals'[g] = "completed"]_vars

\* C16: a goal with a recurring plan stays active when the last step of a
\* cycle settles, and a trigger fire on the finished cycle of an idle agent
\* publishes trigger_fired first and wakes the goal into a new planning cycle,
\* which starts with a recon task.
RecurringGoalStaysActive ==
  [][\A g \in Goals :
       /\ (/\ goals[g] = "active" /\ plans[g].recurring
           /\ ~allStepsDone(World, g)
           /\ plans'[g].version = plans[g].version
           /\ allStepsDone([World EXCEPT !.plans = plans'], g))
            => goals'[g] = "active"
       /\ (/\ goals[g] = "active" /\ plans[g].recurring
           /\ allStepsDone(World, g)
           /\ g \notin activeGoals /\ ~activeExecutions[GoalAgent(g)]
           /\ FireTrigger(g))
            => /\ Len(published') > 0 /\ published'[1] = Ev("trigger_fired", g, "")
               /\ g \in activeGoals'
               /\ \E t \in TaskIds : reconTaskMap[t] # g /\ reconTaskMap'[t] = g
               /\ goals'[g] = "active"]_vars

\* the trigger has just started a new cycle of a goal whose cycle was finished
NewCycleStarted ==
  \E g \in Goals :
    /\ goals[g] = "active" /\ plans[g].recurring /\ allStepsDone(World, g)
    /\ g \in activeGoals
    /\ \E t \in TaskIds : reconTaskMap[t] = g
    /\ Len(published) > 0 /\ published[1] = Ev("trigger_fired", g, "")

\* C17: fireTrigger publishes no trigger_fired and does not call wake (the
\* goal, its plan, activeGoals and the Oracle calls stay as they are, no task
\* is created) when the goal is paused, completed or failed or is already in
\* activeGoals.
TriggerShortCircuits ==
  [][\A g \in Goals :
       (/\ goals[g] \in {"paused", "completed", "failed"} \/ g \in activeGoals
        /\ FireTrigger(g))
         => /\ published' = <<>>
            /\ goals' = goals /\ plans' = plans
            /\ activeGoals' = activeGoals /\ threads' = threads
            /\ numTasks' = numTasks /\ numSessions' = numSessions]_vars

\* a paused goal that a wake would resume and execute, after a silent step
PausedGoalLeftAlone ==
  \E g \in Goals :
    /\ goals[g] = "paused" /\ g \notin activeGoals
    /\ ~activeExecutions[GoalAgent(g)]
    /\ getNextPendingStep(World, g) # NoStep
    /\ \A t \in ThreadIds : threads[t] = NoThread
    /\ published = <<>>

\* C18: a goal's status changes only along active -> paused, paused -> active,
\* active -> completed and active -> failed, so that a completed or failed
\* goal keeps its status.
GoalStatusTransitions ==
  [][\A g \in Goals :
       goals'[g] # goals[g] =>
         <<goals[g], goals'[g]>> \in {<<"active", "paused">>, <<"paused", "active">>,
                                      <<"active", "completed">>, <<"active", "failed">>}]_vars

\* C19: when the planning Oracle call returns an error or no plan with at
\* least one step, the goal becomes failed, leaves activeGoals, and no worker
\* task and no plan are created for it.
PlanningFailureFailsGoal ==
  [][\A t \in ThreadIds :
       (threads[t].kind = "plan" /\ PlanOracle(t, 0, FALSE))
         => LET g == threads[t].goalId IN
            /\ goals'[g] = "failed"
            /\ g \notin activeGoals'
            /\ ~Dispatched(g)
            /\ numTasks' = numTasks /\ numSessions' = numSessions
            /\ plans' = plans]_vars

\* the goal has just been failed by its planning
GoalJustFailed ==
  \E g \in Goals :
    /\ goals[g] = "failed" /\ g \notin activeGoals
    /\ \E i \in 1..Len(published) : published[i] = Ev("goal_updated", g, "failed")

\* the sessions of step tasks of goal g that end with status error in this step
stepSessionsEndedInError(g) ==
  {s \in SessionIds :
     /\ sessions[s].taskId \in TaskIds
     /\ stepTaskMap[sessions[s].taskId].goalId = g
     /\ \E i \in 1..Len(published') : published'[i] = Ev("session_ended", s, "error")}

\* an Oracle call that crafts the next instruction or plans again starts for g
ContinuesWith(g) ==
  \E t \in ThreadIds :
    /\ threads'[t] # threads[t]
    /\ threads'[t].kind \in {"craft", "plan"}
    /\ threads'[t].goalId = g

\* C20: when the worker session of a step of an active goal ends with status
\* error, the step is marked failed and the Adversary goes on with the goal: it
\* starts crafting the instruction of the next pending step or plans again.
FailedStepContinues ==
  [][\A g \in Goals : \A s \in stepSessionsEndedInError(g) :
       LET stepId == stepTaskMap[sessions[s].taskId].stepId IN
       (/\ goals[g] = "active" /\ stepId[1] = plans[g].version
        /\ \A t \in ThreadIds : threads[t].goalId # g
        /\ \A i \in 1..Len(plans[g].steps) :
             i # stepId[2] => plans[g].steps[i].status # "in_progress")
         => /\ plans'[g].version = plans[g].version
                 => plans'[g].steps[stepId[2]].status = "failed"
            /\ ContinuesWith(g)]_vars

\* C21: when the triage of a worker's question says it cannot be answered, the
\* step becomes blocked and holds the question, question_raised is published
\* once, and while a step of the goal is blocked no worker task is dispatched
\* for the goal (reply() takes the step out of blocked before it dispatches).
BlockedStepWaitsForReply ==
  [][\A g \in Goals :
       /\ \A t \in ThreadIds :
            (/\ threads[t].kind = "triage" /\ threads[t].goalId = g
             /\ threads[t].stepId \in stepIds(World, g)
             /\ TriageOracle(t, FALSE))
              => /\ plans'[g].steps[threads[t].stepId[2]].status = "blocked"
                 /\ plans'[g].steps[threads[t].stepId[2]].question = TRUE
                 /\ Len(SelectSeq(published', LAMBDA e : e.type = "question_raised")) = 1
       /\ stepsWithStatus(World, g, "blocked") # {} => ~Dispatched(g)]_vars

\* C22: reply(goalId, answer) on a goal without a blocked step changes no goal,
\* plan, step, task, session or agent, starts no Oracle call and dispatches no
\* worker task.
ReplyWithoutBlockedStepIgnored ==
  [][\A g \in Goals :
       (stepsWithStatus(World, g, "blocked") = {} /\ Reply(g))
         => /\ goals' = goals /\ plans' = plans /\ activeGoals' = activeGoals
            /\ tasks' = tasks /\ numTasks' = numTasks
            /\ sessions' = sessions /\ numSessions' = numSessions
            /\ agentState' = agentState /\ currentTaskId' = currentTaskId
            /\ stepTaskMap' = stepTaskMap /\ retryMap' = retryMap
            /\ threads' = threads
            /\ ~Dispatched(g)]_vars

\* a reply on a goal whose step is in progress, not blocked, has just been ignored
ReplyIgnoredWhileRunning ==
  \E g \in Goals :
    /\ goals[g] = "active" /\ g \in activeGoals
    /\ stepsWithStatus(World, g, "blocked") = {}
    /\ stepsWithStatus(World, g, "in_progress") # {}
    /\ \A t \in ThreadIds : threads[t].kind = "idle"
    /\ published = <<>>

\* C23: every setPlan on a goal stores a plan whose version is one more than
\* the version of the plan it replaces (1 for the first plan), the stored plan
\* is the new one (all of its steps pending, none of the old steps), and a
\* plan's version changes in no other way.
PlanVersionIncrements ==
  [][\A g \in Goals :
       /\ (\E i \in 1..Len(published') : published'[i] = Ev("plan_created", g, ""))
            => /\ plans'[g].version = plans[g].version + 1
               /\ Len(plans'[g].steps) >= 1
               /\ \A i \in 1..Len(plans'[g].steps) : plans'[g].steps[i] = NewStep
       /\ plans'[g].version # plans[g].version
            => plans'[g].version = plans[g].version + 1]_vars

\* a second plan has just replaced the first one
SecondPlanSet ==
  \E g \in Goals :
    /\ plans[g].version = 2
    /\ \E i \in 1..Len(published) : published[i] = Ev("plan_created", g, "")

\* ---------------------------------------------------------------- PreferenceManager
PrefKeys == {"k1", "k2"}
PrefValues == {"v1", "v2"}
Confidences == {"assumed", "inferred", "explicit"}

\* the argument of addPreference; value stands for value, source and category
PrefInputs == [key : PrefKeys, value : PrefValues, confidence : Confidences]

\* the rank table of addPreference
rank(confidence) ==
  CASE confidence = "assumed" -> 0
    [] confidence = "inferred" -> 1
    [] confidence = "explicit" -> 2

\* prefs.findIndex(p => p.key === key), 0 for -1
findIndex(prefs, key) ==
  LET hits == {i \in 1..Len(prefs) : prefs[i].key = key} IN
  IF hits = {} THEN 0 ELSE CHOOSE i \in hits : \A j \in hits : i <= j

\* PreferenceManager.saveForAgent
saveForAgent(w, agentId) ==
  [w EXCEPT !.sent = Append(@, [op |-> "savePreferences", sid |-> agentId, message |-> ""])]

\* an upsert that replaces whatever the confidences are
addPreferenceAlways(w, agentId, pref) ==
  LET prefs == w.preferences[agentId]
      existingIdx == findIndex(prefs, pref.key)
  IN IF existingIdx > 0
     THEN saveForAgent(
            [w EXCEPT !.preferences[agentId][existingIdx] =
               [@ EXCEPT !.value = pref.value, !.confidence = pref.confidence]],
            agentId)
     ELSE emit(saveForAgent(
                 [w EXCEPT !.preferences[agentId] =
                    Append(@, [key |-> pref.key, value |-> pref.value,
                               confidence |-> pref.confidence, usedCount |-> 0])],
                 agentId),
               "preference_extracted", agentId, pref.key)

\* PreferenceManager.addPreference
addPreference(w, agentId, pref) ==
  LET prefs == w.preferences[agentId]
      existingIdx == findIndex(prefs, pref.key)
  IN IF existingIdx > 0
     THEN IF rank(pref.confidence) >= rank(prefs[existingIdx].confidence)
          THEN saveForAgent(
                 [w EXCEPT !.preferences[agentId][existingIdx] =
                    [@ EXCEPT !.value = pref.value, !.confidence = pref.confidence]],
                 agentId)
          ELSE w
     ELSE emit(saveForAgent(
                 [w EXCEPT !.preferences[agentId] =
                    Append(@, [key |-> pref.key, value |-> pref.value,
                               confidence |-> pref.confidence, usedCount |-> 0])],
                 agentId),
               "preference_extracted", agentId, pref.key)

\* PreferenceManager.removePreference
removePreference(w, agentId, key) ==
  LET prefs == w.preferences[agentId]
      idx == findIndex(prefs, key)
  IN IF idx = 0 THEN w
     ELSE saveForAgent(
            [w EXCEPT !.preferences[agentId] =
               SubSeq(prefs, 1, idx - 1) \o SubSeq(prefs, idx + 1, Len(prefs))],
            agentId)

\* PreferenceManager.incrementUsage
incrementUsage(w, agentId, key) ==
  LET idx == findIndex(w.preferences[agentId], key) IN
  IF idx = 0 THEN w
  ELSE IF w.preferences[agentId][idx].usedCount >= MaxUsed THEN [w EXCEPT !.overflow = TRUE]
  ELSE saveForAgent([w EXCEPT !.preferences[agentId][idx].usedCount = @ + 1], agentId)

AddPreference(a, pref) == Commit(addPreference(World, a, pref))
RemovePreference(a, key) == Commit(removePreference(World, a, key))
IncrementUsage(a, key) == Commit(incrementUsage(World, a, key))

NextPref ==
  \/ \E a \in Agents, pref \in PrefInputs : AddPreference(a, pref)
  \/ \E a \in Agents, key \in PrefKeys : RemovePreference(a, key)
  \/ \E a \in Agents, key \in PrefKeys : IncrementUsage(a, key)

SpecPref == Init /\ [][NextPref]_vars

\* C24: addPreference on an existing key replaces the stored value and
\* confidence if and only if the new confidence ranks at least as high as the
\* stored one (assumed < inferred < explicit); otherwise the stored preference
\* is unchanged; in both cases the confidence of the key does not decrease and
\* no other preference changes.
ConfidenceNeverLowered ==
  [][\A a \in Agents : \A pref \in PrefInputs :
       LET i == findIndex(preferences[a], pref.key) IN
       (i > 0 /\ AddPreference(a, pref))
         => /\ Len(preferences'[a]) = Len(preferences[a])
            /\ \A j \in 1..Len(preferences[a]) : j # i => preferences'[a][j] = preferences[a][j]
            /\ IF rank(pref.confidence) >= rank(preferences[a][i].confidence)
               THEN preferences'[a][i] =
                      [preferences[a][i] EXCEPT !.value = pref.value,
                                                !.confidence = pref.confidence]
               ELSE preferences'[a][i] = preferences[a][i]
            /\ rank(preferences'[a][i].confidence) >= rank(preferences[a][i].confidence)]_vars

\* with every key stored, an addPreference of lower confidence has just been
\* turned down: nothing was saved and nothing was published
LowerConfidenceTurnedDown ==
  \E a \in Agents :
    /\ {preferences[a][i].key : i \in 1..Len(preferences[a])} = PrefKeys
    /\ \E i \in 1..Len(preferences[a]) : preferences[a][i].confidence = "explicit"
    /\ \A i \in 1..Len(preferences[a]) : preferences[a][i].usedCount < MaxUsed
    /\ sent = <<>> /\ published = <<>>

\* C26: at every reachable state an agent's state is working if and only if
\* one of the agent's sessions is starting, active or waiting for input.
WorkingIffSessionRunning ==
  \A a \in Agents : agentState[a] = "working" <=> liveSessionsOf(a) # {}

\* ---------------------------------------------------------------- one whole run
\* the steps that hand out ids, with room for the ids of a whole run
WakeLong(g) == Commit(wake(LongRun, g))
CraftOracleLong(t) ==
  /\ threads[t].kind = "craft"
  /\ Commit(executeStepWithInstruction([LongRun EXCEPT !.threads[t] = NoThread],
                                       threads[t].goalId, threads[t].stepId))
EvalOracleLong(t, verdict) ==
  /\ threads[t].kind = "eval"
  /\ Commit(evaluateStepResultResume([LongRun EXCEPT !.threads[t] = NoThread],
                                     threads[t].goalId, threads[t].stepId,
                                     threads[t].result, verdict))

CraftReplyOracleLong(t) ==
  /\ threads[t].kind = "craftReply"
  /\ Commit(craftReplyResume([LongRun EXCEPT !.threads[t] = NoThread],
                             threads[t].goalId, threads[t].stepId, threads[t].from))

\* what a worker that does its work writes on stdout
HappyWorkerEvents ==
  {StreamEvent("assistant", "", FALSE, <<>>, FALSE),
   StreamEvent("system", "", FALSE, <<>>, FALSE),
   StreamEvent("result", "success", FALSE, <<>>, FALSE)}

\* the happy path: the recon completes, the Oracle plans two steps, judges every
\* result PASS and refines nothing
NextHappy ==
  \/ \E g \in Goals : WakeLong(g)
  \/ \E t \in ThreadIds : PlanOracle(t, 2, FALSE)
  \/ \E t \in ThreadIds : CraftOracleLong(t)
  \/ \E t \in ThreadIds : EvalOracleLong(t, "PASS")
  \/ \E t \in ThreadIds : RefineOracle(t, {})
  \/ \E p \in ProcIds, event \in HappyWorkerEvents : Stdout(p, event)
  \/ \E p \in ProcIds : Stderr(p)
  \/ \E p \in ProcIds : Close(p, "0", NoFlush)

SpecHappy == Init /\ [][NextHappy]_vars

\* the run of goal g, the only goal its agent has worked on, is over: the goal
\* was planned and has left activeGoals, no session of the agent is running and
\* no Oracle call of the goal is pending any more
RunOver(g) ==
  /\ plans[g].version > 0
  /\ g \notin activeGoals
  /\ liveSessionsOf(GoalAgent(g)) = {}
  /\ \A t \in ThreadIds : threads[t].kind # "idle" => threads[t].goalId # g
  /\ \A h \in Goals \ {g} :
       GoalAgent(h) = GoalAgent(g) => plans[h].version = 0 /\ h \notin activeGoals

\* C25 as stated: the happy path ends with the goal completed, both steps
\* completed and the agent's tasksCompleted equal to 2.
HappyPathTwoTasksCompleted ==
  \A g \in Goals :
    RunOver(g) =>
      /\ goals[g] = "completed"
      /\ Len(plans[g].steps) = 2
      /\ \A i \in 1..2 : plans[g].steps[i].status = "completed"
      /\ tasksCompleted[GoalAgent(g)] = 2

\* C25, amended: the happy path ends with the goal completed, both steps
\* completed and the agent's tasksCompleted equal to 3: the recon task is a
\* task of the agent too and its session completes like the sessions of the steps.
HappyPathCompletes ==
  \A g \in Goals :
    RunOver(g) =>
      /\ goals[g] = "completed"
      /\ Len(plans[g].steps) = 2
      /\ \A i \in 1..2 : plans[g].steps[i].status = "completed"
      /\ tasksCompleted[GoalAgent(g)] = 3

\* the happy path has run to its end
HappyPathOver ==
  \E g \in Goals : RunOver(g) /\ goals[g] = "completed" /\ plans[g].version = 1

\* ---------------------------------------------------------------- roster
\* the first PoolSize names of AGENT_NAMES
AGENT_NAMES == SubSeq(<<"Alex", "Sam", "Jordan", "Taylor">>, 1, PoolSize)

\* `Agent ${counter}`
numberedName(counter) ==
  CASE counter = 1 -> "Agent 1"
    [] counter = 2 -> "Agent 2"
    [] counter = 3 -> "Agent 3"
    [] OTHER -> "Agent 4"

\* the names an operator passes to hire; "" stands for no name
CustomNames == {"", "Alex", "Agent 1", "Zoe"}

\* AgentManager.pickName: the name, and the world with the name in usedNames
pickedName(w) ==
  LET free == {i \in 1..Len(AGENT_NAMES) : AGENT_NAMES[i] \notin w.usedNames} IN
  IF free # {}
  THEN AGENT_NAMES[CHOOSE i \in free : \A j \in free : i <= j]
  ELSE LET unused == {c \in 1..(MaxHires + 1) : numberedName(c) \notin w.usedNames} IN
       numberedName(CHOOSE c \in unused : \A d \in unused : c <= d)

\* AgentManager.hireAgent
hireAgent(w, customName) ==
  IF w.numHired >= MaxHires THEN [w EXCEPT !.overflow = TRUE]
  ELSE
    LET picks == customName = ""
        name == IF picks THEN pickedName(w) ELSE customName
        w1 == IF picks THEN [w EXCEPT !.usedNames = @ \cup {name}] ELSE w
        w2 == [w1 EXCEPT !.numHired = @ + 1,
                         !.roster = Append(@, [id |-> w.numHired + 1, name |-> name])]
    IN emit(w2, "agent_hired", w.numHired + 1, name)

\* AgentManager.fireAgent
fireAgent(w, agentId) ==
  LET hits == {i \in 1..Len(w.roster) : w.roster[i].id = agentId} IN
  IF hits = {} THEN w
  ELSE LET i == CHOOSE x \in hits : TRUE
           name == w.roster[i].name
           w1 == [w EXCEPT !.roster = SubSeq(@, 1, i - 1) \o SubSeq(@, i + 1, Len(@)),
                           !.usedNames = @ \ {name}]
       IN emit(w1, "agent_fired", agentId, name)

Hire(customName) == Commit(hireAgent(World, customName))
Fire(agentId) == Commit(fireAgent(World, agentId))

NextRoster ==
  \/ \E customName \in CustomNames : Hire(customName)
  \/ \E agentId \in 1..MaxHires : Fire(agentId)

SpecRoster == Init /\ [][NextRoster]_vars

\* C27: over any sequence of hire (with or without a name) and fire, no two
\* agents of the roster have the same name.
RosterNamesUnique ==
  \A i, j \in 1..Len(roster) : roster[i].name = roster[j].name => i = j

\* ---------------------------------------------------------------- restart
AgentStates == {"idle", "working", "thinking", "walking"}

\* the tasks TaskManager.initialize loads: n tasks, each in any status
LoadedTasks(n) ==
  {f \in [TaskIds -> [status : {"none", "pending", "in_progress", "completed", "failed"},
                      result : {"null", "text", "error"},
                      assignedAgentId : {0} \cup Agents]] :
     \A t \in TaskIds :
       IF t > n THEN f[t] = NoTask
       ELSE /\ f[t].status # "none"
            /\ f[t].result = (CASE f[t].status = "completed" -> "text"
                                [] f[t].status = "failed" -> "error"
                                [] OTHER -> "null")}

\* the state after construction and the initialize of AgentManager and
\* TaskManager: agents and tasks as the last run saved them
InitLoaded ==
  /\ InitExceptSaved
  /\ plans = [g \in Goals |-> NoPlan]
  /\ agentState \in [Agents -> AgentStates]
  /\ currentTaskId \in [Agents -> {-1} \cup (1..MaxTasks)]
  /\ numTasks \in 0..MaxTasks
  /\ tasks \in LoadedTasks(numTasks)

\* a sweep that resets the agents and leaves the tasks as they are
sweepStatesOnly(w, agentId) ==
  unassignTask(w, agentId)

\* the sweep of ClaudeCodeBridge.initialize for one agent
sweepAgent(w, agentId) ==
  LET w1 == IF w.agentState[agentId] \in {"working", "thinking"}
            THEN updateAgentState(w, agentId, "idle") ELSE w
      taskId == w1.currentTaskId[agentId]
  IN IF taskId = -1 THEN w1
     ELSE LET w2 == IF taskId \in TaskIds /\ w1.tasks[taskId].status = "in_progress"
                    THEN emit(failTask(w1, taskId), "task_failed", taskId, "restart")
                    ELSE w1
          IN unassignTask(w2, agentId)

RECURSIVE sweepFrom(_, _)
sweepFrom(w, agentId) ==
  IF agentId > NumAgents THEN w ELSE sweepFrom(sweepAgent(w, agentId), agentId + 1)

\* ClaudeCodeBridge.initialize
initialize(w) ==
  sweepFrom([w EXCEPT !.activeExecutions = [a \in Agents |-> FALSE]], 1)

Initialize == Commit(initialize(World))

SpecRestart == InitLoaded /\ [][Initialize]_vars

OneStepPlan == [version |-> 1, steps |-> <<NewStep>>, recurring |-> FALSE]

InitRetry == InitExceptPlans /\ plans = [g \in Goals |-> OneStepPlan]

\* one step whose results the Oracle judges PASS or RETRY, and whose questions
\* the Oracle answers itself or leaves to the user
NextRetry ==
  \/ \E g \in Goals : WakeLong(g)
  \/ \E t \in ThreadIds : CraftOracleLong(t)
  \/ \E t \in ThreadIds, verdict \in {"PASS", "RETRY"} : EvalOracleLong(t, verdict)
  \/ \E t \in ThreadIds, canAnswer \in BOOLEAN : TriageOracle(t, canAnswer)
  \/ \E t \in ThreadIds : CraftReplyOracleLong(t)
  \/ \E p \in ProcIds, event \in HappyWorkerEvents : Stdout(p, event)
  \/ \E p \in ProcIds : Close(p, "0", NoFlush)

SpecRetry == InitRetry /\ [][NextRetry]_vars

\* C29: a RETRY verdict dispatches the step again only while retryMap[stepId]
\* is below 2 and counts the retry; at 2 it starts the triage of
\* auto-answer-or-escalate and dispatches nothing; and the step of a one-step
\* plan is dispatched at most 3 times in total while the user is not asked.
RetriesCapped ==
  [][/\ \A t \in ThreadIds :
          (threads[t].kind = "eval" /\ EvalOracleLong(t, "RETRY"))
            => LET g == threads[t].goalId
                   stepId == threads[t].stepId
               IN IF retryCount(World, stepId) < 2
                  THEN /\ numTasks' = numTasks + 1
                       /\ retryMap' = retryMapSet(World, stepId,
                                                  retryCount(World, stepId) + 1).retryMap
                  ELSE /\ numTasks' = numTasks /\ ~Dispatched(g)
                       /\ \E u \in ThreadIds : threads'[u].kind = "triage"
     /\ numTasks' <= 3]_vars

\* ---------------------------------------------------------------- skipped steps
\* the plan GoalManager.initialize loads for a goal saved with a three-step plan
ThreeStepPlan == [version |-> 1, steps |-> <<NewStep, NewStep, NewStep>>, recurring |-> FALSE]

InitSkip == InitExceptPlans /\ plans = [g \in Goals |-> ThreeStepPlan]

\* what a worker that completes or fails writes on stdout
EndingWorkerEvents ==
  {StreamEvent("assistant", "", FALSE, <<>>, FALSE),
   StreamEvent("result", "success", FALSE, <<>>, FALSE),
   StreamEvent("result", "error", FALSE, <<>>, FALSE)}

\* one run of a three-step plan, one step after the other: every result that
\* is evaluated passes, refinePlan may skip pending steps, a worker may fail
NextSkip ==
  \/ \E g \in Goals : WakeLong(g)
  \/ \E t \in ThreadIds : PlanOracle(t, 1, FALSE)
  \/ \E t \in ThreadIds : CraftOracleLong(t)
  \/ \E t \in ThreadIds : EvalOracleLong(t, "PASS")
  \/ \E t \in ThreadIds, skip \in SUBSET (1..3) : RefineOracle(t, skip)
  \/ \E p \in ProcIds, event \in EndingWorkerEvents : Stdout(p, event)
  \/ \E p \in ProcIds : Close(p, "0", NoFlush)

SpecSkip == InitSkip /\ [][NextSkip]_vars

\* C30: when a step of an active goal settles and leaves the plan with no
\* pending step, no step in progress, no blocked step and at least one failed
\* step, the Adversary starts planning again.
FailedPlanIsReplanned ==
  [][\A g \in Goals :
       (/\ goals[g] = "active" /\ goals'[g] = "active"
        /\ plans'[g].version = plans[g].version
        /\ plans'[g].steps # plans[g].steps
        /\ \A i \in 1..Len(plans'[g].steps) :
             plans'[g].steps[i].status \notin {"pending", "in_progress", "blocked"}
        /\ \E i \in 1..Len(plans'[g].steps) : plans'[g].steps[i].status = "failed")
         => \E t \in ThreadIds :
              /\ threads'[t] # threads[t]
              /\ threads'[t].kind = "plan" /\ threads'[t].goalId = g]_vars

\* ---------------------------------------------------------------- verdicts
\* what llm.complete resolves with for the prompt of evaluateStepResult:
\* "error" is a failed call (content '', error set), "text" is content that
\* extractJSON gets no object from, "json" is an object without a verdict,
\* and the others are objects with that verdict ("FAIL": any other string)
EvalResponses == {"error", "text", "json", "PASS", "RETRY", "ESCALATE", "FAIL"}

\* a parse that escalates what it cannot read
parsedVerdictStrict(response) ==
  IF response \in {"error", "text", "json"} THEN "ESCALATE" ELSE response

\* the parse of the verdict in evaluateStepResult
parsedVerdict(response) ==
  IF response \in {"error", "text", "json"} THEN "PASS" ELSE response

EvalOracleResponds(t, response) == EvalOracleLong(t, parsedVerdict(response))

\* what llm.complete resolves with for the prompt of craftWorkerInstruction:
\* a failed call, empty content, or the text of an instruction
CraftResponses == {"error", "empty", "text"}

\* AdversaryAgent.craftWorkerInstruction after its Oracle call: the instruction
\* the worker prompt is built from
craftWorkerInstruction(response) ==
  IF response \in {"error", "empty"} THEN "step.description" ELSE "response.content"

\* executeNextStep after craftWorkerInstruction: the instruction goes into the
\* worker prompt and into nothing else
CraftOracleResponds(t, response) ==
  /\ craftWorkerInstruction(response) \in {"step.description", "response.content"}
  /\ CraftOracleLong(t)

\* one run of the goals, one step after the other, with every answer the
\* evaluator can give
NextEval ==
  \/ \E g \in Goals : WakeLong(g)
  \/ \E t \in ThreadIds : PlanOracle(t, MaxSteps, FALSE)
  \/ \E t \in ThreadIds, response \in CraftResponses : CraftOracleResponds(t, response)
  \/ \E t \in ThreadIds, response \in EvalResponses : EvalOracleResponds(t, response)
  \/ \E t \in ThreadIds, skip \in SUBSET (1..MaxSteps) : RefineOracle(t, skip)
  \/ \E t \in ThreadIds : TriageOracle(t, FALSE)
  \/ \E p \in ProcIds, event \in EndingWorkerEvents : Stdout(p, event)
  \/ \E p \in ProcIds : Close(p, "0", NoFlush)

SpecEval == InitAdv /\ [][NextEval]_vars

\* C31: when the evaluator call fails, or its content holds no JSON object or
\* no verdict, the step is completed with the worker's result and the run goes
\* on: refinePlan asks the Oracle while a step is pending, and once it has
\* answered the instruction of the next pending step is being crafted.
UnparsedVerdictPasses ==
  [][/\ \A t \in ThreadIds, response \in {"error", "text", "json"} :
          (threads[t].kind = "eval" /\ EvalOracleResponds(t, response))
            => LET g == threads[t].goalId
                   stepId == threads[t].stepId
               IN /\ plans'[g].steps[stepId[2]].status = "completed"
                  /\ plans'[g].steps[stepId[2]].result = threads[t].result
                  /\ stepsWithStatus(World, g, "pending") # {}
                       => \E u \in ThreadIds :
                            threads'[u].kind = "refine" /\ threads'[u].goalId = g
     /\ \A t \in ThreadIds, skip \in SUBSET (1..MaxSteps) :
          (threads[t].kind = "refine" /\ RefineOracle(t, skip))
            => LET g == threads[t].goalId
                   next == getNextPendingStep(
                             refinePlanResume(World, g, threads[t].stepId[1], skip), g)
               IN next # NoStep
                    => \E u \in ThreadIds :
                         /\ threads'[u].kind = "craft"
                         /\ threads'[u].goalId = g /\ threads'[u].stepId = next]_vars

\* the evaluator's answer has just been taken as PASS with a step pending: the evaluated
\* step is completed and refinePlan is asking the Oracle
FailedEvalPassed ==
  \E g \in Goals, t \in ThreadIds :
    /\ threads[t].kind = "refine" /\ threads[t].goalId = g
    /\ plans[g].steps[1].status = "completed"
    /\ plans[g].steps[1].result # "null"
    /\ Len(plans[g].steps) = 2 /\ plans[g].steps[2].status = "pending"
    /\ \E i \in 1..Len(published) : published[i] = Ev("step_completed", g, "")

\* C32: when the Oracle call that crafts the worker instruction of a step
\* fails, the goal transitions to failed.
CraftFailureFailsGoal ==
  [][\A t \in ThreadIds :
       (threads[t].kind = "craft" /\ CraftOracleResponds(t, "error"))
         => goals'[threads[t].goalId] = "failed"]_vars

\* ---------------------------------------------------------------- refinement
\* the entries of refined_steps: order is the 0-based PlanStep.order, "" is a
\* missing description, "SKIP" the literal, "refined" any other new text
RefinedEntries == [order : 0..3, description : {"", "SKIP", "refined"}]
RefinedSteps == {<<>>} \cup {<<e>> : e \in RefinedEntries}
                  \cup {<<e, f>> : e \in RefinedEntries, f \in RefinedEntries}

\* a refinement that looks for the step by its order alone
refineStepAnyStatus(w, goalId, version, refined) ==
  IF refined.description = "" THEN w
  ELSE IF w.plans[goalId].version # version THEN w
  ELSE
    LET ids == {id \in stepIds(w, goalId) : id[2] - 1 = refined.order} IN
    IF ids = {} THEN w
    ELSE LET id == CHOOSE x \in ids : TRUE IN
         IF refined.description = "SKIP"
         THEN updatePlanStep(w, goalId, id, [status |-> "skipped"])
         ELSE IF refined.description # stepOf(w, goalId, id).description
         THEN [w EXCEPT !.plans[goalId].steps[id[2]].description = refined.description]
         ELSE w

\* the body of the loop over refined_steps in AdversaryAgent.refinePlan; version
\* is the version of the plan the call read before it asked the Oracle, whose
\* steps are those of the current plan only while the plan was not replaced
refineStep(w, goalId, version, refined) ==
  IF refined.description = "" THEN w
  ELSE IF w.plans[goalId].version # version THEN w
  ELSE
    LET ids == {id \in stepsWithStatus(w, goalId, "pending") : id[2] - 1 = refined.order} IN
    IF ids = {} THEN w
    ELSE LET id == CHOOSE x \in ids : TRUE IN
         IF refined.description = "SKIP"
         THEN updatePlanStep(w, goalId, id, [status |-> "skipped"])
         ELSE IF refined.description # stepOf(w, goalId, id).description
         THEN [w EXCEPT !.plans[goalId].steps[id[2]].description = refined.description]
         ELSE w

RECURSIVE refineSteps(_, _, _, _)
\* AdversaryAgent.refinePlan after its Oracle call, refined_steps in their order
refineSteps(w, goalId, version, refined) ==
  IF refined = <<>> THEN w
  ELSE refineSteps(refineStep(w, goalId, version, Head(refined)), goalId, version,
                   Tail(refined))

RefineOracleAnswers(t, refined) ==
  /\ threads[t].kind = "refine"
  /\ Commit(evaluateAndContinue(
              refineSteps(Returned(t), threads[t].goalId, threads[t].stepId[1], refined),
              threads[t].goalId))

\* a three-step plan whose steps complete or fail and whose pending steps the
\* Oracle refines
NextRefine ==
  \/ \E g \in Goals : WakeLong(g)
  \/ \E t \in ThreadIds : PlanOracle(t, 1, FALSE)
  \/ \E t \in ThreadIds : CraftOracleLong(t)
  \/ \E t \in ThreadIds : EvalOracleLong(t, "PASS")
  \/ \E t \in ThreadIds, refined \in RefinedSteps : RefineOracleAnswers(t, refined)
  \/ \E p \in ProcIds, event \in EndingWorkerEvents : Stdout(p, event)
  \/ \E p \in ProcIds : Close(p, "0", NoFlush)

SpecRefine == InitSkip /\ [][NextRefine]_vars

\* the entries of refined that refinePlan does not pass over for the step of
\* order k: those before the first SKIP for it, and that SKIP
entriesFor(refined, k) ==
  {i \in 1..Len(refined) :
     /\ refined[i].order = k /\ refined[i].description # ""
     /\ \A j \in 1..(i - 1) :
          refined[j].order = k => refined[j].description # "SKIP"}

\* C33: a refinement changes only steps that are pending when the Oracle has
\* answered: such a step takes the description of the last refined entry of
\* its order, or becomes skipped when an entry of its order says SKIP, and
\* nothing else of it changes; every other step is left as it was.
RefinementTouchesPendingOnly ==
  [][\A t \in ThreadIds, refined \in RefinedSteps :
       (threads[t].kind = "refine" /\ RefineOracleAnswers(t, refined))
         => LET g == threads[t].goalId IN
            /\ Len(plans'[g].steps) = Len(plans[g].steps)
            /\ \A i \in 1..Len(plans[g].steps) :
                 LET old == plans[g].steps[i]
                     new == plans'[g].steps[i]
                     es == entriesFor(refined, i - 1)
                 IN IF old.status # "pending" \/ es = {}
                        \/ plans[g].version # threads[t].stepId[1]
                    THEN new = old
                    ELSE LET last == CHOOSE e \in es : \A f \in es : f <= e IN
                         /\ new.taskId = old.taskId /\ new.result = old.result
                         /\ new.question = old.question
                         /\ new.status = IF refined[last].description = "SKIP"
                                         THEN "skipped" ELSE "pending"
                         /\ LET texts == {e \in es : refined[e].description # "SKIP"} IN
                            new.description =
                              IF texts = {} THEN old.description
                              ELSE refined[CHOOSE e \in texts : \A f \in texts : f <= e].description]_vars

\* a refinement has rewritten one pending step and skipped another while the
\* completed step kept its result
RefinedAndSkipped ==
  \E g \in Goals :
    /\ plans[g].steps[1].status = "completed" /\ plans[g].steps[1].result # "null"
    /\ plans[g].steps[1].description = "step"
    /\ plans[g].steps[2].status = "pending" /\ plans[g].steps[2].description = "refined"
    /\ plans[g].steps[3].status = "skipped"

\* ---------------------------------------------------------------- termination
\* C34: with no operator involved after the wake, the worker tasks dispatched
\* for the step of a one-step plan stay below a bound: the cycle of evaluation,
\* retry, escalation, auto-answer and new dispatch stops before the task ids
\* of the model run out.
StepDispatchesBounded ==
  \A g \in Goals :
    Cardinality({k \in 1..numTasks : tasks[k].assignedAgentId = GoalAgent(g)}) < LongRunIds

\* one-step plans whose worker completes or fails; a result that is evaluated
\* passes, and the Oracle answers every planning call with one more step
NextReplan ==
  \/ \E g \in Goals : WakeLong(g)
  \/ \E t \in ThreadIds : PlanOracle(t, 1, FALSE)
  \/ \E t \in ThreadIds : CraftOracleLong(t)
  \/ \E t \in ThreadIds : EvalOracleLong(t, "PASS")
  \/ \E p \in ProcIds, event \in EndingWorkerEvents : Stdout(p, event)
  \/ \E p \in ProcIds : Close(p, "0", NoFlush)

SpecReplan == InitRetry /\ [][NextReplan]_vars

\* C35: a goal whose worker dispatches keep failing is planned again only a
\* bounded number of times: the plans made after the first stay fewer than the
\* worker tasks the model can dispatch.
ReplansBounded ==
  \A g \in Goals : plans[g].version - 1 < LongRunIds

\* ---------------------------------------------------------------- approvals
\* C36: approveToolPermission for an agent whose live session has no pending
\* permission only records the tool as approved: the subprocess of the session
\* is neither killed nor spawned again, nothing is sent to the runtime and the
\* session is left as it is.
ApprovalWithoutRequestOnlyRecords ==
  [][\A a \in Agents :
       LET s == getActiveSessionForAgent(World, a) IN
       (/\ s # 0
        /\ sessions[s].status \in LiveStatuses
        /\ sessions[s].pendingPermissions = <<>>
        /\ ApproveTool(a, "Bash"))
         => /\ approvedTools'[a] = approvedTools[a] \cup {"Bash"}
            /\ procs' = procs /\ numProcs' = numProcs
            /\ sessionProcesses' = sessionProcesses
            /\ sent' = <<>>
            /\ sessions' = sessions]_vars

\* ---------------------------------------------------------------- session end
\* C37: at every reachable state at most one session_ended has been published
\* for every session.
SessionEndedAtMostOnce == \A s \in SessionIds : endedCount[s] <= 1

\* a session that has ended was moved to waiting_input by a late result event
\* with permission denials, and its one session_ended is still the only one
EndedSessionWaitsAgain ==
  \E s \in SessionIds : endedCount[s] = 1 /\ sessions[s].status = "waiting_input"

\* C38: when denyToolPermission ends the live session of an agent, the session
\* is completed and its worker subprocess is no longer running: it has exited
\* or it was sent SIGTERM.
DeniedSessionHasNoProcess ==
  [][\A a \in Agents :
       LET s == getActiveSessionForAgent(World, a) IN
       (s # 0 /\ DenyTool(a))
         => /\ sessions'[s].status = "completed"
            /\ \A p \in ProcIds :
                 procs'[p].sid = s => procs'[p].st # "live" \/ procs'[p].killed]_vars

\* ---------------------------------------------------------------- outstanding work
\* work is outstanding for step i of the plan of goal g: a session of its task
\* is live, or a call about the step is suspended on the Oracle
stepOutstanding(g, i) ==
  \/ \E s \in SessionIds :
       /\ sessions[s].status \in LiveStatuses
       /\ sessions[s].taskId = plans[g].steps[i].taskId
  \/ \E t \in ThreadIds :
       /\ threads[t].kind \in {"eval", "triage", "craftReply"}
       /\ threads[t].goalId = g /\ threads[t].stepId = <<plans[g].version, i>>

\* work is outstanding for every plan step that is in_progress
InProgressStepHasWork ==
  \A g \in Goals : \A i \in 1..Len(plans[g].steps) :
    plans[g].steps[i].status = "in_progress" => stepOutstanding(g, i)

\* the plan GoalManager.initialize loads for a goal whose first step was being
\* worked on, as task 1, when the application closed
InterruptedPlan ==
  [version |-> 1,
   steps |-> <<[NewStep EXCEPT !.status = "in_progress", !.taskId = 1], NewStep>>,
   recurring |-> FALSE]

\* the state after construction and the initialize of AgentManager, TaskManager
\* and GoalManager: agents, tasks and plans as the last run saved them
InitInterrupted ==
  /\ InitExceptSaved
  /\ plans \in [Goals -> {NoPlan, SavedPlan, InterruptedPlan}]
  /\ agentState \in [Agents -> AgentStates]
  /\ currentTaskId \in [Agents -> {-1} \cup (1..MaxTasks)]
  /\ numTasks \in 0..MaxTasks
  /\ tasks \in LoadedTasks(numTasks)
  /\ \A g \in Goals :
       plans[g] = InterruptedPlan
         => /\ numTasks >= 1
            /\ tasks[1].status = "in_progress"
            /\ tasks[1].assignedAgentId = GoalAgent(g)

SpecInterrupted == InitInterrupted /\ [][Initialize]_vars

\* C39: after the restart sweep of Bridge.initialize, as within a run, work is
\* outstanding for every plan step that is in_progress.
SweepLeavesNoStepInProgress ==
  [][Initialize => InProgressStepHasWork']_vars

\* something is outstanding for goal g: a live session of a task dispatched
\* for it, a call suspended on the Oracle, or a blocked step awaiting a reply
goalOutstanding(g) ==
  \/ \E s \in SessionIds :
       /\ sessions[s].status \in LiveStatuses
       /\ sessions[s].taskId \in TaskIds
       /\ \/ reconTaskMap[sessions[s].taskId] = g
          \/ stepTaskMap[sessions[s].taskId].goalId = g
  \/ \E t \in ThreadIds : threads[t].kind # "idle" /\ threads[t].goalId = g
  \/ stepsWithStatus(World, g, "blocked") # {}

\* C40: at every reachable state something is outstanding for every goal in
\* activeGoals.
ActiveGoalHasWork == \A g \in activeGoals : goalOutstanding(g)

\* a goal in activeGoals whose only outstanding work is a step blocked on a
\* question put to the user
EscalatedGoalStaysActive ==
  \E g \in activeGoals :
    /\ stepsWithStatus(World, g, "blocked") # {}
    /\ \A t \in ThreadIds : threads[t].kind # "idle" => threads[t].goalId # g
    /\ \A s \in SessionIds : sessions[s].status \notin LiveStatuses

====
